---- MODULE Spec2Model ----
(***************************************************************************)
(* A model of python-inliner (src/src/main.rs).                            *)
(*                                                                         *)
(* Text is a sequence of one-character strings; offsets are the 0-based    *)
(* byte offsets of the Rust code (all file contents of the model are       *)
(* ASCII, so a character is a byte).  A path is a sequence of component    *)
(* strings: <<"t", "main.py">> is /t/main.py.                              *)
(*                                                                         *)
(* run/inline_imports is a recursive procedure over a shared processed     *)
(* set; it is modelled as a stack machine: one frame per active call of    *)
(* inline_imports, one action per import match handled, per return and     *)
(* for the final write.                                                    *)
(***************************************************************************)
EXTENDS Naturals, Integers, Sequences, FiniteSets, TLC

(***************************************************************************)
(* Text primitives (Rust str operations used by the code).                 *)
(***************************************************************************)

\* content[a..b] with 0-based offsets, end exclusive
Slice(s, a, b) == SubSeq(s, a + 1, b)

\* the character at 0-based offset i (only used with i < Len(s))
At(s, i) == s[i + 1]

\* \s of the regex crate and char::is_whitespace, restricted to ASCII
IsWs(c) == c \in {" ", "\t", "\n", "\r", "\f"}

\* s[i..].starts_with(lit)
HasAt(s, i, lit) ==
    /\ i + Len(lit) <= Len(s)
    /\ \A k \in 1..Len(lit) : s[i + k] = lit[k]

\* s.ends_with(lit)
EndsWith(s, lit) == Len(lit) <= Len(s) /\ HasAt(s, Len(s) - Len(lit), lit)

\* first offset >= i that holds no space or tab: the end of a greedy [ \t]*
RECURSIVE SkipSpTab(_, _)
SkipSpTab(s, i) ==
    IF i < Len(s) /\ At(s, i) \in {" ", "\t"} THEN SkipSpTab(s, i + 1) ELSE i

\* first offset >= i that holds no whitespace: the end of a greedy \s*
RECURSIVE SkipWs(_, _)
SkipWs(s, i) ==
    IF i < Len(s) /\ IsWs(At(s, i)) THEN SkipWs(s, i + 1) ELSE i

\* first offset >= i that holds whitespace (or the length): the end of \S*
RECURSIVE SkipNonWs(_, _)
SkipNonWs(s, i) ==
    IF i < Len(s) /\ ~IsWs(At(s, i)) THEN SkipNonWs(s, i + 1) ELSE i

\* offset of the first "\n" at or after i, or the length: where (?m)$ holds
RECURSIVE LineEnd(_, _)
LineEnd(s, i) ==
    IF i < Len(s) /\ At(s, i) # "\n" THEN LineEnd(s, i + 1) ELSE i

\* (?m)^ holds at offset i
IsLineStart(s, i) == i = 0 \/ (i <= Len(s) /\ At(s, i - 1) = "\n")

\* str::trim_start, str::trim_end, str::trim
RECURSIVE TrimStart(_)
TrimStart(s) ==
    IF s # <<>> /\ IsWs(Head(s)) THEN TrimStart(Tail(s)) ELSE s

RECURSIVE TrimEnd(_)
TrimEnd(s) ==
    IF s # <<>> /\ IsWs(s[Len(s)]) THEN TrimEnd(SubSeq(s, 1, Len(s) - 1)) ELSE s

Trim(s) == TrimEnd(TrimStart(s))

\* str::lines: split at "\n", a final empty piece is dropped, and a "\r"
\* right before a terminating "\n" belongs to the terminator
StripCr(l) ==
    IF l # <<>> /\ l[Len(l)] = "\r" THEN SubSeq(l, 1, Len(l) - 1) ELSE l

RECURSIVE LinesFrom(_, _)
LinesFrom(s, i) ==
    IF i >= Len(s) THEN <<>>
    ELSE LET e == LineEnd(s, i)
             l == Slice(s, i, e)
         IN  <<IF e < Len(s) THEN StripCr(l) ELSE l>> \o LinesFrom(s, e + 1)

Lines(s) == LinesFrom(s, 0)

\* str::split(sep) for a one-character separator
RECURSIVE SplitFrom(_, _, _, _)
SplitFrom(s, sep, i, start) ==
    IF i >= Len(s) THEN <<Slice(s, start, Len(s))>>
    ELSE IF At(s, i) = sep
         THEN <<Slice(s, start, i)>> \o SplitFrom(s, sep, i + 1, i + 1)
         ELSE SplitFrom(s, sep, i + 1, start)

Split(s, sep) == SplitFrom(s, sep, 0, 0)

\* the concatenation of the texts of a sequence
RECURSIVE Concat(_)
Concat(ss) == IF ss = <<>> THEN <<>> ELSE Head(ss) \o Concat(Tail(ss))

\* a text as one string (for path components)
RECURSIVE Str(_)
Str(s) == IF s = <<>> THEN "" ELSE Head(s) \o Str(Tail(s))

\* Iterator::filter on a sequence
RECURSIVE NonEmptyOnly(_)
NonEmptyOnly(ss) ==
    IF ss = <<>> THEN <<>>
    ELSE IF Head(ss) = <<>> THEN NonEmptyOnly(Tail(ss))
         ELSE <<Head(ss)>> \o NonEmptyOnly(Tail(ss))

(***************************************************************************)
(* Literals of the source.                                                 *)
(***************************************************************************)
KwFrom == <<"f", "r", "o", "m">>
KwImport == <<"i", "m", "p", "o", "r", "t">>
KwIf == <<"i", "f">>
KwTypeChecking == <<"T", "Y", "P", "E", "_", "C", "H", "E", "C", "K", "I", "N", "G">>
NL == <<"\n">>

(***************************************************************************)
(* run, lines 96-102: the alternatives of the module group of the import   *)
(* regex.  The first is the escaped dot; the others are the names of the   *)
(* comma-separated list, empty pieces dropped BEFORE trimming.  The names  *)
(* of the model hold no regex metacharacter, so each alternative matches   *)
(* its own text.                                                           *)
(***************************************************************************)
RECURSIVE TrimAll(_)
TrimAll(ss) == IF ss = <<>> THEN <<>> ELSE <<Trim(Head(ss))>> \o TrimAll(Tail(ss))

ModuleAlternatives(names) ==
    <<<<".">>>> \o TrimAll(NonEmptyOnly(Split(names, ",")))

\* ------------------------------------------------------------------------
\* inline_imports, line 232: the import regex
\*     (?m)^([ \t]*)from\s+((?:ALTS)\S*)\s+import\s+(.+)$
\* matched at the line start p, with the regex crate's leftmost-first
\* (backtracking) semantics.
\* ------------------------------------------------------------------------
NoMatch == [ok |-> FALSE]

\* \s+import\s+(.+)$ from offset h on: the end of the match, or -1
\* (\s+ is greedy and gives characters back until .+ finds one)
RECURSIVE LastNonNewline(_, _, _)
LastNonNewline(c, q, lo) ==
    IF q < lo THEN -1
    ELSE IF q < Len(c) /\ At(c, q) # "\n" THEN q
    ELSE LastNonNewline(c, q - 1, lo)

NamesEnd(c, q) == IF q < 0 THEN -1 ELSE LineEnd(c, q)

ImportKeyword(c, h, j) ==
    IF j > h /\ HasAt(c, j, KwImport)
    THEN NamesEnd(c, LastNonNewline(c, SkipWs(c, j + Len(KwImport)),
                                    j + Len(KwImport) + 1))
    ELSE -1

ImportTail(c, h) == ImportKeyword(c, h, SkipWs(c, h))

\* ((?:ALTS)\S*)\s+import\s+(.+)$ with the module group starting at g: the
\* first alternative, in the order of the list, that lets the rest match
ModuleEnd(c, h, end) ==
    IF end >= 0 THEN [ok |-> TRUE, modEnd |-> h, end |-> end] ELSE NoMatch

ModuleRest(c, h) == ModuleEnd(c, h, ImportTail(c, h))

RECURSIVE ModuleGroupFrom(_, _, _, _)
ModuleTry(c, g, alts, a, r) ==
    IF r.ok THEN r ELSE ModuleGroupFrom(c, g, alts, a + 1)

ModuleGroupFrom(c, g, alts, a) ==
    IF a > Len(alts) THEN NoMatch
    ELSE IF HasAt(c, g, alts[a])
         THEN ModuleTry(c, g, alts, a,
                        ModuleRest(c, SkipNonWs(c, g + Len(alts[a]))))
         ELSE ModuleGroupFrom(c, g, alts, a + 1)

ModuleGroup(c, g, alts) == ModuleGroupFrom(c, g, alts, 1)

\* from\s+ is greedy: the module group starts as late as it can, at g or
\* before it but not before lo
RECURSIVE GroupStart(_, _, _, _, _, _)
GroupTry(c, p, i1, g, lo, alts, mg) ==
    IF mg.ok
    THEN [ok |-> TRUE, start |-> p, end |-> mg.end,
          indent |-> Slice(c, p, i1), submodule |-> Slice(c, g, mg.modEnd)]
    ELSE GroupStart(c, p, i1, g - 1, lo, alts)

GroupStart(c, p, i1, g, lo, alts) ==
    IF g < lo THEN NoMatch
    ELSE GroupTry(c, p, i1, g, lo, alts, ModuleGroup(c, g, alts))

\* a faulty pattern that takes a plain import of a local module too
PlainKeyword(c, p, i1, g, alts) ==
    IF \E a \in 1..Len(alts) : HasAt(c, g, alts[a])
    THEN [ok |-> TRUE, start |-> p, end |-> LineEnd(c, g),
          indent |-> Slice(c, p, i1), submodule |-> Slice(c, g, SkipNonWs(c, g))]
    ELSE NoMatch

FromOrPlainKeyword(c, p, i1, alts) ==
    IF HasAt(c, i1, KwFrom)
    THEN GroupStart(c, p, i1, SkipWs(c, i1 + Len(KwFrom)),
                    i1 + Len(KwFrom) + 1, alts)
    ELSE IF HasAt(c, i1, KwImport \o <<" ">>)
    THEN PlainKeyword(c, p, i1, SkipWs(c, i1 + Len(KwImport)), alts)
    ELSE NoMatch

FromKeyword(c, p, i1, alts) ==
    IF HasAt(c, i1, KwFrom)
    THEN GroupStart(c, p, i1, SkipWs(c, i1 + Len(KwFrom)),
                    i1 + Len(KwFrom) + 1, alts)
    ELSE NoMatch

ImportMatchAt(c, p, alts) ==
    IF IsLineStart(c, p) THEN FromKeyword(c, p, SkipSpTab(c, p), alts)
    ELSE NoMatch

\* captures_iter: the next match at or after the search offset
RECURSIVE NextImport(_, _, _)
NextImportTry(c, from, alts, m) ==
    IF m.ok THEN m ELSE NextImport(c, from + 1, alts)

NextImport(c, from, alts) ==
    IF from > Len(c) THEN NoMatch
    ELSE NextImportTry(c, from, alts, ImportMatchAt(c, from, alts))

(***************************************************************************)
(* find_type_checking_blocks, lines 168-223.                               *)
(***************************************************************************)
\* (?m)^([ \t]*)if\s+TYPE_CHECKING\s*: at the line start p
GuardMatchAt(c, p) ==
    LET i1 == SkipSpTab(c, p)
        i2 == i1 + Len(KwIf)
        i3 == SkipWs(c, i2)
        i4 == SkipWs(c, i3 + Len(KwTypeChecking))
    IN  IF /\ IsLineStart(c, p)
           /\ HasAt(c, i1, KwIf)
           /\ i3 > i2
           /\ HasAt(c, i3, KwTypeChecking)
           /\ HasAt(c, i4, <<":">>)
        THEN [ok |-> TRUE, start |-> p, end |-> i4 + 1, indent_len |-> i1 - p]
        ELSE NoMatch

RECURSIVE NextGuard(_, _)
NextGuardTry(c, from, g) == IF g.ok THEN g ELSE NextGuard(c, from + 1)

NextGuard(c, from) ==
    IF from > Len(c) THEN NoMatch
    ELSE NextGuardTry(c, from, GuardMatchAt(c, from))

\* the loop over lines_after.lines(), lines 185-217
RECURSIVE BlockEnd(_, _, _, _, _)
BlockEnd(ls, k, indent_len, block_end, found_content) ==
    IF k > Len(ls) THEN block_end
    ELSE LET line == ls[k]
             line_indent == Len(line) - Len(TrimStart(line))
         IN  IF Trim(line) = <<>>
             THEN BlockEnd(ls, k + 1, indent_len, block_end + Len(line) + 1,
                           found_content)
             ELSE IF line_indent > indent_len
                  THEN BlockEnd(ls, k + 1, indent_len,
                                block_end + Len(line) + 1, TRUE)
                  ELSE block_end

RECURSIVE BlocksFrom(_, _)
BlockOf(c, g) ==
    IF ~g.ok THEN <<>>
    ELSE <<<<g.start,
             BlockEnd(Lines(Slice(c, g.end, Len(c))), 1, g.indent_len,
                      g.end, FALSE)>>>>
         \o BlocksFrom(c, g.end)

BlocksFrom(c, from) == BlockOf(c, NextGuard(c, from))

find_type_checking_blocks(content) == BlocksFrom(content, 0)

(***************************************************************************)
(* inline_imports, lines 239-261: the content without the blocks.          *)
(***************************************************************************)
RECURSIVE SkipBlocks(_, _, _, _)
SkipBlocks(content, blocks, k, current_pos) ==
    IF k > Len(blocks)
    THEN IF current_pos < Len(content)
         THEN Slice(content, current_pos, Len(content))
         ELSE <<>>
    ELSE (IF current_pos < blocks[k][1]
          THEN Slice(content, current_pos, blocks[k][1])
          ELSE <<>>)
         \o SkipBlocks(content, blocks, k + 1, blocks[k][2])

ContentToProcess(content) ==
    SkipBlocks(content, find_type_checking_blocks(content), 1, 0)

(***************************************************************************)
(* inline_imports, lines 275-311: the end of the span an import statement  *)
(* occupies.                                                               *)
(***************************************************************************)
\* the loop over remaining.chars(), lines 285-303: the offset after the
\* parenthesis that closes the one the first line opened, or -1
RECURSIVE ClosingParen(_, _, _)
ClosingParen(c, i, paren_count) ==
    IF i >= Len(c) THEN -1
    ELSE IF At(c, i) = "(" THEN ClosingParen(c, i + 1, paren_count + 1)
    ELSE IF At(c, i) = ")"
         THEN IF paren_count = 1 THEN i + 1
              ELSE ClosingParen(c, i + 1, paren_count - 1)
    ELSE ClosingParen(c, i + 1, paren_count)

\* lines 295-299 and 306-310
SkipNewline(c, end) ==
    IF HasAt(c, end, <<"\n">>) THEN end + 1
    ELSE IF HasAt(c, end, <<"\r", "\n">>) THEN end + 2
    ELSE end

IsMultiLine(c, m) == EndsWith(TrimEnd(Slice(c, m.start, m.end)), <<"(">>)

SpanEnd(c, m) ==
    IF IsMultiLine(c, m)
    THEN LET close == ClosingParen(c, m.end, 1)
         IN  IF close >= 0 THEN SkipNewline(c, close) ELSE m.end
    ELSE SkipNewline(c, m.end)

(***************************************************************************)
(* Paths and the storage provider.                                         *)
(***************************************************************************)
\* Path::parent
Parent(path) == SubSeq(path, 1, Len(path) - 1)

\* the components of submodule.trim_start_matches('.').replace(".", "/")
RECURSIVE TrimDots(_)
TrimDots(s) == IF s # <<>> /\ Head(s) = "." THEN TrimDots(Tail(s)) ELSE s

RECURSIVE Strs(_)
Strs(ss) == IF ss = <<>> THEN <<>> ELSE <<Str(Head(ss))>> \o Strs(Tail(ss))

DottedComponents(s) == Strs(NonEmptyOnly(Split(s, ".")))

\* Path::join with a relative path
Join(path, comps) == path \o comps

\* Path::with_extension("py") on a last component that has no extension
WithExtensionPy(path) ==
    IF path = <<>> THEN path
    ELSE Parent(path) \o <<path[Len(path)] \o ".py">>

IsPrefix(a, b) == Len(a) <= Len(b) /\ SubSeq(b, 1, Len(a)) = a

\* FileSystem::exists: a file or a directory (file_system.rs, lines 114-125)
Exists(files, path) == \E f \in DOMAIN files : IsPrefix(path, f)

\* FileSystem::read_to_string succeeds on files only
Readable(files, path) == path \in DOMAIN files

\* a faulty handling of a failed read: run goes on to write its output
ReadErrorIgnored == "inlined"

\* where run is after read_to_string failed: the ? operator returns the
\* error from every call of inline_imports and from run
ReadError == "error"

\* a faulty variant that looks a relative module up under the search roots
ModulePathsFromRoots(submodule, parent_dir, sys_path) ==
    [k \in 1..Len(sys_path) |->
        Join(sys_path[k], DottedComponents(TrimDots(submodule)))]

\* inline_imports, lines 314-323
ModulePaths(submodule, parent_dir, sys_path) ==
    IF HasAt(submodule, 0, <<".">>)
    THEN <<Join(parent_dir, DottedComponents(TrimDots(submodule)))>>
    ELSE [k \in 1..Len(sys_path) |->
             Join(sys_path[k], DottedComponents(submodule))]

\* a faulty resolution that prefers the module file to the package
RECURSIVE ResolveModuleFirst(_, _, _)
ResolveModuleFirst(files, module_paths, k) ==
    IF k > Len(module_paths) THEN [found |-> FALSE]
    ELSE IF Exists(files, WithExtensionPy(module_paths[k]))
    THEN [found |-> TRUE, path |-> WithExtensionPy(module_paths[k]),
          package |-> FALSE, root |-> k]
    ELSE IF Exists(files, Join(module_paths[k], <<"__init__.py">>))
    THEN [found |-> TRUE, path |-> Join(module_paths[k], <<"__init__.py">>),
          package |-> TRUE, root |-> k]
    ELSE ResolveModuleFirst(files, module_paths, k + 1)

\* inline_imports, lines 327-408: the first module path that exists, as a
\* package (its __init__.py) or else as a module file
RECURSIVE Resolve(_, _, _)
Resolve(files, module_paths, k) ==
    IF k > Len(module_paths) THEN [found |-> FALSE]
    ELSE LET init_path == Join(module_paths[k], <<"__init__.py">>)
             module_file_path == WithExtensionPy(module_paths[k])
         IN  IF Exists(files, init_path)
             THEN [found |-> TRUE, path |-> init_path, package |-> TRUE,
                   root |-> k]
             ELSE IF Exists(files, module_file_path)
             THEN [found |-> TRUE, path |-> module_file_path,
                   package |-> FALSE, root |-> k]
             ELSE Resolve(files, module_paths, k + 1)

(***************************************************************************)
(* The text inline_imports writes around and instead of an import.         *)
(***************************************************************************)
MarkDownText ==
    <<"#", " ", "↓", "↓", "↓", " ", "i", "n", "l", "i", "n", "e", "d", " ">>
MarkUpText ==
    <<"#", " ", "↑", "↑", "↑", " ", "i", "n", "l", "i", "n", "e", "d", " ">>
KindPackage ==
    <<"p", "a", "c", "k", "a", "g", "e">>
KindSubmodule ==
    <<"s", "u", "b", "m", "o", "d", "u", "l", "e">>
AlreadyOpen ==
    <<"#", " ", "→", "→", " ">>
AlreadyPackage ==
    <<" ", "←", "←", " ", "p", "a", "c", "k", "a", "g", "e", " ", "a", "l",
      "r", "e", "a", "d", "y", " ", "i", "n", "l", "i", "n", "e", "d">>
AlreadyModule ==
    <<" ", "←", "←", " ", "m", "o", "d", "u", "l", "e", " ", "a", "l", "r",
      "e", "a", "d", "y", " ", "i", "n", "l", "i", "n", "e", "d">>

\* a faulty kind that calls every file a submodule
KindSubmoduleAlways(package) == KindSubmodule

Kind(package) == IF package THEN KindPackage ELSE KindSubmodule

\* lines 341 and 377
LeadingMarker(indent, package, submodule) ==
    indent \o MarkDownText \o Kind(package) \o <<":", " ">> \o submodule \o NL

\* lines 358 and 394
TrailingMarker(indent, package, submodule) ==
    indent \o MarkUpText \o Kind(package) \o <<":", " ">> \o submodule \o NL

\* lines 365 and 401
AlreadyMarker(indent, package, submodule) ==
    indent \o AlreadyOpen \o submodule
    \o (IF package THEN AlreadyPackage ELSE AlreadyModule) \o NL

\* a faulty re-indentation that indents the empty lines too
IndentEveryLine(indent, line) == indent \o line \o NL

\* lines 344-353 and 380-389
IndentLine(indent, line) ==
    IF line = <<>> THEN NL ELSE indent \o line \o NL

RECURSIVE IndentLines(_, _)
IndentLines(indent, ls) ==
    IF ls = <<>> THEN <<>>
    ELSE IndentLine(indent, Head(ls)) \o IndentLines(indent, Tail(ls))

\* lines 340-359 and 376-395: what replaces a resolved import
InlinedBlock(release, indent, package, submodule, body) ==
    (IF ~release THEN LeadingMarker(indent, package, submodule) ELSE <<>>)
    \o IndentLines(indent, Lines(body))
    \o NL
    \o (IF ~release THEN TrailingMarker(indent, package, submodule) ELSE <<>>)

\* a faulty replacement that writes the marker in release mode too
AlreadyBlockAlways(release, indent, package, submodule) ==
    AlreadyMarker(indent, package, submodule)

\* lines 360-367 and 396-403: what replaces a repeated import
AlreadyBlock(release, indent, package, submodule) ==
    IF ~release THEN AlreadyMarker(indent, package, submodule) ELSE <<>>

\* a faulty insert that forgets the path
InsertNothing(set, path) == set

\* HashSet::insert, lines 335 and 371: the set with the path in it
Insert(set, path) == set \cup {path}

\* a faulty push of the first line of the statement only
KeptFirstLine(c, start, end) == Slice(c, start, LineEnd(c, start))

\* line 413: the text pushed for an import no module path exists for
KeptStatement(c, start, end) == Slice(c, start, end)

(***************************************************************************)
(* Character classes and the order of strings (release passes).            *)
(***************************************************************************)
\* the characters in the order of their code points
Alphabet ==
    <<"\t", "\n", "\f", "\r", " ", "!", "\"", "#", "$", "%", "&", "'", "(",
      ")", "*", "+", ",", "-", ".", "/", "0", "1", "2", "3", "4", "5", "6",
      "7", "8", "9", ":", ";", "<", "=", ">", "?", "@", "A", "B", "C", "D",
      "E", "F", "G", "H", "I", "J", "K", "L", "M", "N", "O", "P", "Q", "R",
      "S", "T", "U", "V", "W", "X", "Y", "Z", "[", "\\", "]", "^", "_",
      "a", "b", "c", "d", "e", "f", "g", "h", "i", "j", "k", "l", "m", "n",
      "o", "p", "q", "r", "s", "t", "u", "v", "w", "x", "y", "z", "{", "|",
      "}", "~", "←", "↑", "→", "↓">>

Code == [c \in {Alphabet[i] : i \in 1..Len(Alphabet)} |->
            CHOOSE i \in 1..Len(Alphabet) : Alphabet[i] = c]

Letters == {Alphabet[i] : i \in Code["A"]..Code["Z"]}
           \cup {Alphabet[i] : i \in Code["a"]..Code["z"]}

Digits == {Alphabet[i] : i \in Code["0"]..Code["9"]}

\* [a-zA-Z_] and \w, restricted to ASCII
IdentStart == Letters \cup {"_"}

Word == Letters \cup Digits \cup {"_"}

Whitespace == {" ", "\t", "\n", "\r", "\f"}

\* the end of a greedy run of characters of the class from offset i
RECURSIVE SkipClass(_, _, _)
SkipClass(s, i, class) ==
    IF i < Len(s) /\ At(s, i) \in class THEN SkipClass(s, i + 1, class) ELSE i

\* the class holds the character at offset i
ClassAt(s, i, class) == i < Len(s) /\ At(s, i) \in class

\* the order of String: by code points, a proper prefix first
RECURSIVE Less(_, _)
Less(a, b) ==
    IF b = <<>> THEN FALSE
    ELSE IF a = <<>> THEN TRUE
    ELSE IF Head(a) = Head(b) THEN Less(Tail(a), Tail(b))
    ELSE Code[Head(a)] < Code[Head(b)]

\* Vec::sort on the elements of a set
RECURSIVE Sorted(_)
Least(set) == CHOOSE a \in set : \A b \in set \ {a} : Less(a, b)

Sorted(set) ==
    IF set = {} THEN <<>>
    ELSE <<Least(set)>> \o Sorted(set \ {Least(set)})

\* [String]::join
RECURSIVE JoinWith(_, _)
JoinWith(ss, sep) ==
    IF ss = <<>> THEN <<>>
    ELSE IF Len(ss) = 1 THEN Head(ss)
    ELSE Head(ss) \o sep \o JoinWith(Tail(ss), sep)

\* str::contains
RECURSIVE ContainsFrom(_, _, _)
ContainsFrom(s, lit, i) ==
    IF i + Len(lit) > Len(s) THEN FALSE
    ELSE HasAt(s, i, lit) \/ ContainsFrom(s, lit, i + 1)

Contains(s, lit) == ContainsFrom(s, lit, 0)

(***************************************************************************)
(* post_process_imports, lines 422-515.                                    *)
(***************************************************************************)
Pep723Mark == <<"/", "/", "/">>

\* shebang_regex ^#!
IsShebang(line) == HasAt(line, 0, <<"#", "!">>)

\* pep723_start_regex ^#\s*///
IsPep723Start(t) == HasAt(t, 0, <<"#">>) /\ HasAt(t, SkipWs(t, 1), Pep723Mark)

\* trimmed == "# ///" || trimmed == "#///"
IsPep723End(t) == t = <<"#", " ">> \o Pep723Mark \/ t = <<"#">> \o Pep723Mark

\* import_regex, first alternative, from the offset after ^\s*:
\*     from\s+[a-zA-Z_][\w.]*\s+import\s+
FromAfterModule(l, i) ==
    /\ ClassAt(l, i, Whitespace)
    /\ HasAt(l, SkipWs(l, i), KwImport)
    /\ ClassAt(l, SkipWs(l, i) + Len(KwImport), Whitespace)

FromModule(l, i) ==
    /\ ClassAt(l, i, IdentStart)
    /\ FromAfterModule(l, SkipClass(l, i + 1, Word \cup {"."}))

IsFromLine(l, i) ==
    /\ HasAt(l, i, KwFrom)
    /\ ClassAt(l, i + Len(KwFrom), Whitespace)
    /\ FromModule(l, SkipWs(l, i + Len(KwFrom)))

\* import_regex, second alternative: import\s+[a-zA-Z_][\w.,\s*]+
PlainModule(l, i) ==
    /\ ClassAt(l, i, IdentStart)
    /\ ClassAt(l, i + 1, Word \cup Whitespace \cup {".", ",", "*"})

IsPlainLine(l, i) ==
    /\ HasAt(l, i, KwImport)
    /\ ClassAt(l, i + Len(KwImport), Whitespace)
    /\ PlainModule(l, SkipWs(l, i + Len(KwImport)))

\* js_import_filter ^\s*import\s+[\w.*]+\s+from\s+['"]
JsAfterFrom(l, i) ==
    /\ ClassAt(l, i, Whitespace)
    /\ ClassAt(l, SkipWs(l, i), {"'", "\""})

JsAfterName(l, i) ==
    /\ ClassAt(l, i, Whitespace)
    /\ HasAt(l, SkipWs(l, i), KwFrom)
    /\ JsAfterFrom(l, SkipWs(l, i) + Len(KwFrom))

JsName(l, i) ==
    /\ ClassAt(l, i, Word \cup {".", "*"})
    /\ JsAfterName(l, SkipClass(l, i, Word \cup {".", "*"}))

IsJsLine(l, i) ==
    /\ HasAt(l, i, KwImport)
    /\ ClassAt(l, i + Len(KwImport), Whitespace)
    /\ JsName(l, SkipWs(l, i + Len(KwImport)))

\* a faulty test of a line: the JavaScript filter is left out
IsPythonImportAt(l, i) == IsFromLine(l, i) \/ IsPlainLine(l, i)

\* lines 484: import_regex.is_match(line) && !js_import_filter.is_match(line)
IsImportAt(l, i) == (IsFromLine(l, i) \/ IsPlainLine(l, i)) /\ ~IsJsLine(l, i)

IsImportLine(l) == IsImportAt(l, SkipWs(l, 0))

\* lines 453-479: the number of lines of the metadata block at the head of
\* lines, the header being empty or not before it
RECURSIVE Pep723Len(_, _, _)
Pep723Len(lines, idx, header_empty) ==
    IF idx > Len(lines) THEN Len(lines)
    ELSE IF /\ IsPep723Start(TrimStart(lines[idx]))
            /\ IsPep723End(TrimStart(lines[idx]))
            /\ ~header_empty
         THEN idx
         ELSE Pep723Len(lines, idx + 1, FALSE)

\* lines 445-451: the number of shebang lines taken
ShebangLen(lines) == IF lines # <<>> /\ IsShebang(lines[1]) THEN 1 ELSE 0

\* lines 454-479 after sh lines were taken
BlockLen(lines, sh) ==
    IF sh < Len(lines) /\ IsPep723Start(TrimStart(lines[sh + 1]))
    THEN Pep723Len(SubSeq(lines, sh + 1, Len(lines)), 1, sh = 0)
    ELSE 0

\* header_content
Header(lines, sh, bl) ==
    (IF sh = 1 THEN <<lines[1], NL>> ELSE <<>>)
    \o SubSeq(lines, sh + 1, sh + bl)

\* lines 483-489
ImportsOf(lines) ==
    {TrimStart(lines[k]) : k \in {j \in 1..Len(lines) : IsImportLine(lines[j])}}

RECURSIVE OtherContent(_)
OtherContent(lines) ==
    IF lines = <<>> THEN <<>>
    ELSE IF IsImportLine(Head(lines)) THEN OtherContent(Tail(lines))
    ELSE <<Head(lines)>> \o OtherContent(Tail(lines))

\* has_pep723, line 497
HasPep723(header) ==
    \E k \in 1..Len(header) : Contains(header[k], <<"#", " ">> \o Pep723Mark)

\* lines 491-514
Assemble(header, imports, other) ==
    JoinWith(header, NL)
    \o (IF imports # {}
        THEN (IF HasPep723(header) THEN NL ELSE <<>>)
             \o JoinWith(Sorted(imports), NL) \o NL
        ELSE IF HasPep723(header) THEN NL ELSE <<>>)
    \o JoinWith(other, NL) \o NL

PostProcessRest(header, rest) ==
    Assemble(header, ImportsOf(rest), OtherContent(rest))

PostProcessBlock(lines, sh, bl) ==
    PostProcessRest(Header(lines, sh, bl),
                    SubSeq(lines, sh + bl + 1, Len(lines)))

PostProcessLines(lines, sh) == PostProcessBlock(lines, sh, BlockLen(lines, sh))

PostProcessShebang(lines) == PostProcessLines(lines, ShebangLen(lines))

post_process_imports(content) == PostProcessShebang(Lines(content))

(***************************************************************************)
(* strip_docstrings, lines 520-607.                                        *)
(***************************************************************************)
Quotes == {"\"", "'"}

\* three bytes equal to q from offset i, inside the content
TripleAt(c, i, q) ==
    i + 2 < Len(c) /\ At(c, i) = q /\ At(c, i + 1) = q /\ At(c, i + 2) = q

\* lines 553-564: the offset after the closing triple quote, -1 when the
\* scan from end_pos finds none
RECURSIVE Closing(_, _, _)
Closing(c, q, end_pos) ==
    IF ~(end_pos + 2 < Len(c)) THEN -1
    ELSE IF TripleAt(c, end_pos, q) /\ ~ClassAt(c, end_pos + 3, {q})
         THEN end_pos + 3
         ELSE Closing(c, q, end_pos + 1)

\* line 574: the offset after the last line feed before start_pos, or 0
RECURSIVE LineStart(_, _)
LineStart(c, start_pos) ==
    IF start_pos = 0 \/ At(c, start_pos - 1) = "\n" THEN start_pos
    ELSE LineStart(c, start_pos - 1)

\* assignment_pattern ^\s*[a-zA-Z_]\w*(\.[a-zA-Z_]\w*)*\s*= from the offset
\* after an identifier
RECURSIVE AfterIdent(_, _)
AfterIdent(l, i) ==
    IF HasAt(l, i, <<".">>) /\ ClassAt(l, i + 1, IdentStart)
    THEN AfterIdent(l, SkipClass(l, i + 2, Word))
    ELSE HasAt(l, SkipWs(l, i), <<"=">>)

IsAssignmentAt(l, i) ==
    ClassAt(l, i, IdentStart) /\ AfterIdent(l, SkipClass(l, i + 1, Word))

\* import_pattern ^\s*(from|import)\s+
IsImportPrefixAt(l, i) ==
    \/ HasAt(l, i, KwFrom) /\ ClassAt(l, i + Len(KwFrom), Whitespace)
    \/ HasAt(l, i, KwImport) /\ ClassAt(l, i + Len(KwImport), Whitespace)

\* lines 580-583 on line_before, i the offset after ^\s*
PreserveAt(l, i) ==
    \/ IsAssignmentAt(l, i)
    \/ IsImportPrefixAt(l, i)
    \/ HasAt(l, i, <<"@">>)
    \/ EndsWith(TrimEnd(l), <<"f">>)

ShouldPreserveLine(l) == PreserveAt(l, SkipWs(l, 0))

should_preserve(c, start_pos) ==
    ShouldPreserveLine(Slice(c, LineStart(c, start_pos), start_pos))

\* lines 532-604: the result from last_pos on, the scan being at pos
RECURSIVE DocScan(_, _, _)
DocString(c, pos, last_pos, end_pos) ==
    IF end_pos < 0 THEN DocScan(c, pos + 1, last_pos)
    ELSE Slice(c, last_pos, pos)
         \o (IF should_preserve(c, pos) THEN Slice(c, pos, end_pos) ELSE <<>>)
         \o DocScan(c, end_pos, end_pos)

DocScan(c, pos, last_pos) ==
    IF ~(pos < Len(c)) THEN Slice(c, last_pos, Len(c))
    ELSE IF ~ClassAt(c, pos, Quotes) \/ ~TripleAt(c, pos, At(c, pos))
         THEN DocScan(c, pos + 1, last_pos)
    ELSE IF ClassAt(c, pos + 3, {At(c, pos)})
         THEN DocScan(c, pos + 1, last_pos)
    ELSE DocString(c, pos, last_pos, Closing(c, At(c, pos), pos + 3))

strip_docstrings(content) == DocScan(content, 0, 0)

(***************************************************************************)
(* strip_comments, lines 609-742.                                          *)
(***************************************************************************)
\* Option::None of a quote character
None == ""

\* lines 696-702: in_string after a quote that is no triple quote
AfterQuote(ch, in_string, in_multiline_string) ==
    IF in_multiline_string # None THEN in_string
    ELSE IF in_string = None THEN ch
    ELSE IF in_string = ch THEN None
    ELSE in_string

\* lines 668-708: k is the offset of the next character of chars, i the
\* counter of the loop; the result is comment_pos (-1 for None) and
\* in_multiline_string after the line
RECURSIVE CommentScan(_, _, _, _, _)
QuoteScan(line, k, i, ch, in_string, in_multiline_string) ==
    IF ClassAt(line, k, {ch}) /\ ClassAt(line, k + 1, {ch})
    THEN IF in_string = ch
         THEN CommentScan(line, k + 2, i, None, None)
         ELSE IF in_string = None
              THEN CommentScan(line, k + 2, i, ch, ch)
              ELSE CommentScan(line, k + 2, i, in_string, in_multiline_string)
    ELSE CommentScan(line, (IF ClassAt(line, k, {ch}) THEN k + 1 ELSE k), i,
                     AfterQuote(ch, in_string, in_multiline_string),
                     in_multiline_string)

CommentScan(line, k, i, in_string, in_multiline_string) ==
    IF ~(k < Len(line))
    THEN [comment_pos |-> -1, in_multiline_string |-> in_multiline_string]
    ELSE IF At(line, k) \in Quotes
         THEN QuoteScan(line, k + 1, i + 1, At(line, k), in_string,
                        in_multiline_string)
    ELSE IF At(line, k) = "#" /\ in_string = None
         THEN [comment_pos |-> i, in_multiline_string |-> in_multiline_string]
    ELSE CommentScan(line, k + 1, i + 1, in_string, in_multiline_string)

\* line.push_str(..) and the line feed when a line follows
Pushed(text, more) == text \o (IF more THEN NL ELSE <<>>)

\* lines 712-733
CodeOfLine(line, comment_pos, more) ==
    IF comment_pos >= 0
    THEN IF Trim(Slice(line, 0, comment_pos)) = <<>> THEN <<>>
         ELSE Pushed(TrimEnd(Slice(line, 0, comment_pos)), more)
    ELSE IF Trim(line) = <<>> THEN <<>> ELSE Pushed(line, more)

\* lines 618-734 from line k on
RECURSIVE CommentLines(_, _, _, _)
CommentScanned(lines, k, scan) ==
    CodeOfLine(lines[k], scan.comment_pos, k < Len(lines))
    \o CommentLines(lines, k + 1, scan.in_multiline_string, FALSE)

CommentKept(lines, k, in_multiline_string, in_pep723_block) ==
    Pushed(lines[k], k < Len(lines))
    \o CommentLines(lines, k + 1, in_multiline_string, in_pep723_block)

\* a faulty body of the loop: inside a block every marker line ends the
\* block, not the bare end marker only
AnyMarkerEnds(lines, k, trimmed, in_multiline_string, in_pep723_block) ==
    IF k = 1 /\ IsShebang(trimmed)
    THEN CommentKept(lines, k, in_multiline_string, in_pep723_block)
    ELSE IF IsPep723Start(trimmed)
         THEN CommentKept(lines, k, in_multiline_string, ~in_pep723_block)
    ELSE IF in_pep723_block
         THEN CommentKept(lines, k, in_multiline_string, TRUE)
    ELSE CommentScanned(lines, k,
                        CommentScan(lines[k], 0, 0, in_multiline_string,
                                    in_multiline_string))

CommentLine(lines, k, trimmed, in_multiline_string, in_pep723_block) ==
    IF k = 1 /\ IsShebang(trimmed)
    THEN CommentKept(lines, k, in_multiline_string, in_pep723_block)
    ELSE IF IsPep723Start(trimmed) /\ in_pep723_block /\ IsPep723End(trimmed)
         THEN CommentKept(lines, k, in_multiline_string, FALSE)
    ELSE IF IsPep723Start(trimmed) /\ ~in_pep723_block
         THEN CommentKept(lines, k, in_multiline_string, TRUE)
    ELSE IF in_pep723_block
         THEN CommentKept(lines, k, in_multiline_string, TRUE)
    ELSE CommentScanned(lines, k,
                        CommentScan(lines[k], 0, 0, in_multiline_string,
                                    in_multiline_string))

CommentLines(lines, k, in_multiline_string, in_pep723_block) ==
    IF k > Len(lines) THEN <<>>
    ELSE CommentLine(lines, k, TrimStart(lines[k]), in_multiline_string,
                     in_pep723_block)

\* lines 736-739
FinalNewline(content) == IF EndsWith(content, NL) THEN NL ELSE <<>>

strip_comments(content) ==
    CommentLines(Lines(content), 1, None, FALSE) \o FinalNewline(content)

(***************************************************************************)
(* strip_blank_lines, lines 746-771.                                       *)
(***************************************************************************)
RECURSIVE NonBlankLines(_, _)
NonBlankLines(lines, k) ==
    IF k > Len(lines) THEN <<>>
    ELSE (IF Trim(lines[k]) = <<>> THEN <<>>
          ELSE Pushed(lines[k], k < Len(lines)))
         \o NonBlankLines(lines, k + 1)

strip_blank_lines(content) ==
    NonBlankLines(Lines(content), 1) \o FinalNewline(content)

\* a faulty order of the passes: the imports are collected last
ReleasePostLast(content) ==
    post_process_imports(strip_blank_lines(strip_comments(
        strip_docstrings(content))))

\* run, lines 114-119
Release(content) ==
    strip_blank_lines(strip_comments(strip_docstrings(
        post_process_imports(content))))

(***************************************************************************)
(* handle_editable_installs, lines 127-164.  Here the components of a      *)
(* path are texts, and the content of a direct_url.json is what            *)
(* serde_json::from_str gives for it: valid is FALSE for a text that is    *)
(* not JSON, url is NoValue or the text of the string "url", editable is   *)
(* "absent" (no dir_info), "none" (dir_info without a boolean editable),   *)
(* "true" or "false".                                                      *)
(***************************************************************************)
SitePackagesText == <<"s", "i", "t", "e", "-", "p", "a", "c", "k", "a", "g", "e", "s">>
DistInfoSuffix == <<".", "d", "i", "s", "t", "-", "i", "n", "f", "o">>
DirectUrlName == <<"d", "i", "r", "e", "c", "t", "_", "u", "r", "l", ".", "j", "s", "o", "n">>
FileScheme == <<"f", "i", "l", "e", ":", "/", "/">>
NoValue == <<"?">>

\* FileSystem::is_dir (file_system.rs, lines 100-111)
IsDir(files, path) == path \notin DOMAIN files /\ Exists(files, path)

\* FileSystem::read_dir (file_system.rs, lines 64-73): the entries of path
ReadDir(files, path) ==
    {SubSeq(f, 1, Len(path) + 1) :
        f \in {g \in DOMAIN files : IsPrefix(path, g) /\ Len(g) > Len(path)}}

\* line 130: path.to_string_lossy().contains("site-packages")
IsSitePackages(path) ==
    \E i \in 1..Len(path) : Contains(path[i], SitePackagesText)

\* line 128-132: Iterator::filter on the list
RECURSIVE SitePackagesOnly(_)
SitePackagesOnly(paths) ==
    IF paths = <<>> THEN <<>>
    ELSE (IF IsSitePackages(Head(paths)) THEN <<Head(paths)>> ELSE <<>>)
         \o SitePackagesOnly(Tail(paths))

\* str::trim_start_matches
RECURSIVE TrimStartMatches(_, _)
TrimStartMatches(s, pat) ==
    IF HasAt(s, 0, pat) THEN TrimStartMatches(Slice(s, Len(pat), Len(s)), pat)
    ELSE s

\* PathBuf::from: the components of a text
PathFrom(text) == NonEmptyOnly(Split(text, "/"))

\* line 140: the entry is a directory whose name ends with .dist-info
IsDistInfo(files, entry_path) ==
    /\ IsDir(files, entry_path)
    /\ EndsWith(entry_path[Len(entry_path)], DistInfoSuffix)

\* lines 146-149: the document declares an editable install at a file URL
IsEditable(json) ==
    /\ json.url # NoValue
    /\ json.editable = "true"
    /\ HasAt(json.url, 0, FileScheme)

\* a faulty test before the push: the list is not looked at
IsNewDirAlways(files, list, package_path) == IsDir(files, package_path)

\* line 151
IsNewDir(files, list, package_path) ==
    /\ IsDir(files, package_path)
    /\ \A k \in 1..Len(list) : list[k] # package_path

\* lines 150-153: the list after the document of an entry was handled
WithPackagePath(files, list, json) ==
    IF /\ IsEditable(json)
       /\ IsNewDir(files, list, PathFrom(TrimStartMatches(json.url, FileScheme)))
    THEN Append(list, PathFrom(TrimStartMatches(json.url, FileScheme)))
    ELSE list

(***************************************************************************)
(* The inputs of a run: the arguments and the files.                       *)
(***************************************************************************)
MaxStmts == 2

Sp == <<" ">>

FromImport(indent, module, names) ==
    indent \o KwFrom \o Sp \o module \o Sp \o KwImport \o Sp \o names

\* the statements an entry file is composed of
StmtPool ==
    << FromImport(<<" ", " ">>, <<".", "a">>, <<"x", "\n">>),
       FromImport(<<>>, <<"m">>, <<"y", "\n">>),
       FromImport(<<"\t">>, <<"m">>,
                  <<"(", "\n", " ", " ", "y", ",", "\n", ")", "\n">>),
       FromImport(<<>>, <<"m">>,
                  <<"(", "y", ",", "\n", " ", " ", "z", ")", "\n">>),
       KwImport \o <<" ", "m", "\n">>,
       FromImport(<<>>, <<"x">>, <<"y", "\n">>),
       <<"D", "=", "1", "\n">>,
       KwIf \o Sp \o KwTypeChecking \o <<":", "\n">>
          \o FromImport(<<" ", " ">>, <<".", "a">>, <<"x", "\n">>),
       FromImport(<<>>, <<".", "a">>, <<"x">>) >>

Entries == UNION {[1..k -> 1..Len(StmtPool)] : k \in 0..MaxStmts}

EntryText(e) == Concat([k \in 1..Len(e) |-> StmtPool[e[k]]])

PMain == <<"t", "main.py">>
POut == <<"t", "out.py">>
PA == <<"t", "a.py">>
PX == <<"t", "x.py">>
PTM == <<"t", "m.py">>
PTP == <<"t", "m", "__init__.py">>
PRM == <<"r", "m.py">>
PRP == <<"r", "m", "__init__.py">>
PSM == <<"s", "m.py">>
\* a file in a directory that is named like the module file of m
PDirM == <<"t", "m.py", "k.py">>

\* three contents of a.py: plain; with a blank line, an indented import of
\* m and no final newline; importing itself and the entry file
APlain == <<"A", "=", "1", "\n">>
ANest == <<"A", "=", "1", "\n", "\n">>
         \o FromImport(<<" ">>, <<"m">>, <<"y", "\n">>)
         \o <<"B", "=", "2">>
ACyc == FromImport(<<>>, <<".", "a">>, <<"x", "\n">>)
        \o FromImport(<<>>, <<".", "m", "a", "i", "n">>, <<"z", "\n">>)
        \o <<"A", "=", "1", "\n">>
\* an import inside the parentheses of another one
AOverlap == FromImport(<<>>, <<".", "q">>, <<"(", "\n">>)
            \o FromImport(<<>>, <<".", "q">>, <<"y", "\n">>)
            \o <<")", "\n", "A", "=", "1", "\n">>

\* a guard that is indented and carries a comment, over an import of x
AGuard == <<" ", " ">> \o KwIf \o Sp \o KwTypeChecking
          \o <<":", " ", "#", " ", "t", "\n">>
          \o FromImport(<<" ", " ", " ", " ">>, <<".", "x">>, <<"y", "\n">>)
          \o <<"A", "=", "1", "\n">>

\* code with a comment, a docstring that holds an import line, a comment
\* line and a blank line
ARich == <<"A", "=", "1", " ", "#", " ", "t", "\n", "'", "'", "'", "\n">>
         \o KwImport \o <<" ", "o", "s", "\n", "'", "'", "'", "\n">>
         \o <<"#", " ", "c", "\n", "\n", "B", "=", "2", "\n">>

\* the package m under a search root, with relative imports of its own:
\* p.k beside it, and k that exists only in the entry file's directory
\* and in the search root
ARelative ==
    (PRP :> (<<"S", "=", "1", "\n">>
             \o FromImport(<<>>, <<".", ".", "p", ".", "k">>, <<"w", "\n">>)
             \o FromImport(<<>>, <<".", "k">>, <<"z", "\n">>)))
    @@ (<<"r", "m", "p", "k.py">> :> <<"W", "=", "1", "\n">>)
    @@ (<<"t", "p", "k.py">> :> <<"P", "=", "1", "\n">>)
    @@ (<<"t", "k.py">> :> <<"T", "=", "1", "\n">>)
    @@ (<<"r", "k.py">> :> <<"V", "=", "1", "\n">>)

\* the module m in its five places
ModuleFiles ==
    (PTM :> (<<"M", "=", "1", "\n">>
             \o FromImport(<<" ", " ">>, <<".", "a">>, <<"x", "\n">>)))
    @@ (PTP :> <<"Q", "=", "1", "\n">>)
    @@ (PRM :> <<"R", "=", "1", "\n">>)
    @@ (PRP :> <<"S", "=", "1", "\n">>)
    @@ (PSM :> <<"U", "=", "1", "\n">>)

Restrict(f, S) == [x \in S |-> f[x]]

\* the file trees every entry file is run in (ShortWorlds adds a tree
\* where m.py is a directory, which exists and cannot be read)
TextWorlds ==
    { <<>>,
      (PA :> APlain) @@ (PX :> <<"X", "=", "1", "\n">>),
      (PA :> ANest) @@ Restrict(ModuleFiles, {PTM}),
      (PA :> ACyc),
      (PA :> ANest) @@ Restrict(ModuleFiles, {PTM, PTP}),
      Restrict(ModuleFiles, {PRM}) }

\* the file trees the entry files of at most one statement are run in:
\* every combination of the places of m
ShortWorlds ==
    {Restrict(ModuleFiles, S) : S \in SUBSET DOMAIN ModuleFiles}
    \cup {(PA :> AOverlap), (PA :> AGuard) @@ (PX :> <<"X", "=", "1", "\n">>),
          (PA :> ANest) @@ (PDirM :> <<"K", "=", "1", "\n">>),
          (PA :> ARich), ARelative}

Worlds(e) == IF Len(e) <= 1 THEN TextWorlds \cup ShortWorlds ELSE TextWorlds

\* the values of the module list: the default, one name, and a list with
\* a blank piece
NameLists == { <<>>, <<"m">>, <<"m", ",", " ">> }

\* the search roots the caller of run supplies
SuppliedRoots == << <<"r">>, <<"s">> >>

(***************************************************************************)
(* The inputs of the release passes: texts without an import that          *)
(* inline_imports handles, composed of a few statements.                   *)
(***************************************************************************)
MaxItems == 2

PassItems ==
    [
      \* an empty line
      blank |-> <<>>,
      \* a line of blanks
      spaces |-> <<" ", " ">>,
      \* code
      code |-> <<"x", " ", "=", " ", "1">>,
      \* a comment line
      comment |-> <<" ", " ", "#", " ", "c">>,
      \* code and a trailing comment
      trailing |-> <<"y", " ", "=", " ", "2", " ", " ", "#", " ", "c">>,
      \* # inside two strings
      hashes |->
          <<"s", " ", "=", " ", "\"", "#", "\"", " ", "+", " ", "'", "#",
            "'">>,
      \* an empty string and a trailing comment
      empty |-> <<"e", " ", "=", " ", "\"", "\"", " ", "#", " ", "c">>,
      \* an escaped quote before a # in a string
      escaped |-> <<"q", " ", "=", " ", "\"", "\\", "\"", "#", "\"">>,
      \* a docstring on one line
      docstring |-> <<" ", " ", "\"", "\"", "\"", "d", "\"", "\"", "\"">>,
      \* a docstring of several lines
      doclines |->
          <<"'", "'", "'", "\n", "#", " ", "i", "n", "\n", "\n", "i", "m",
            "p", "o", "r", "t", " ", "o", "s", "\n", "'", "'", "'">>,
      \* a triple-quoted string that is assigned
      assigned |->
          <<"v", " ", "=", " ", "\"", "\"", "\"", "k", "#", "\"", "\"",
            "\"">>,
      \* a triple-quoted string that is returned
      returned |->
          <<"r", "e", "t", "u", "r", "n", " ", "\"", "\"", "\"", "r", "\"",
            "\"", "\"">>,
      \* an assigned string of several lines
      text |->
          <<"t", " ", "=", " ", "\"", "\"", "\"", "\n", "#", " ", "i", "n",
            "\n", "\n", "i", "m", "p", "o", "r", "t", " ", "o", "s", "\n",
            "\"", "\"", "\"">>,
      \* a docstring whose text starts with a quote
      fourquotes |-> <<"\"", "\"", "\"", "\"", "q", "\"", "\"", "\"">>,
      \* a shebang
      shebang |-> <<"#", "!", "/", "p">>,
      \* a metadata block
      metadata |->
          <<"#", " ", "/", "/", "/", " ", "s", "c", "r", "i", "p", "t",
            "\n", "#", " ", "d", "\n", "#", " ", "/", "/", "/">>,
      \* a metadata block that is not closed: an empty line and code with a
      \* trailing comment in it
      unclosed |->
          <<"#", "/", "/", "/", " ", "s", "\n", "\n", "z", " ", "=", " ", "3",
            " ", "#", " ", "c">>,
      \* a marker line with text, an end marker and a comment line after it
      closing |->
          <<"#", " ", "/", "/", "/", " ", "x", "\n", "#", " ", "/", "/", "/",
            "\n", "#", " ", "c">>,
      \* an import line
      import |-> <<"i", "m", "p", "o", "r", "t", " ", "o", "s">>

    ]

PassPool == {PassItems[n] : n \in DOMAIN PassItems}

\* the statements joined by line feeds, with a final line feed or without
PassText(items, final) == JoinWith(items, NL) \o (IF final THEN NL ELSE <<>>)

PassTexts ==
    {PassText(items, final) :
        items \in UNION {[1..k -> PassPool] : k \in 0..MaxItems},
        final \in BOOLEAN}

\* the lines given to post_process_imports on its own: at most MaxLines of
\* these
MaxLines == 3

ImportItems ==
    [
      \* a shebang
      shebang |-> <<"#", "!", "/", "p">>,
      \* a metadata block with the markers # ///
      spaced |->
          <<"#", " ", "/", "/", "/", " ", "s", "\n", "#", " ", "d", "\n",
            "#", " ", "/", "/", "/">>,
      \* a metadata block with the markers #///
      tight |-> <<"#", "/", "/", "/", " ", "s", "\n", "#", "/", "/", "/">>,
      \* an import
      plain |-> <<"i", "m", "p", "o", "r", "t", " ", "o", "s">>,
      \* the same import, indented
      indented |-> <<" ", " ", "i", "m", "p", "o", "r", "t", " ", "o", "s">>,
      \* an import of the from form
      from |->
          <<"f", "r", "o", "m", " ", "a", " ", "i", "m", "p", "o", "r", "t",
            " ", "b">>,
      \* an import in the JavaScript style
      js |->
          <<"i", "m", "p", "o", "r", "t", " ", "x", " ", "f", "r", "o", "m",
            " ", "'", "y", "'">>,
      \* code
      code |-> <<"x", " ", "=", " ", "1">>,
      \* an empty line
      blank |-> <<>>
    ]

ImportTexts ==
    {PassText(items, final) :
        items \in UNION {[1..k -> {ImportItems[n] : n \in DOMAIN ImportItems}] :
                             k \in 0..MaxLines},
        final \in BOOLEAN}

\* the inputs of handle_editable_installs: a site-packages directory with
\* at most MaxInstalls .dist-info directories that hold a direct_url.json,
\* and a directory c that is no .dist-info and holds one; a directory l that
\* is no site-packages and holds a .dist-info with one; the directories p,
\* o and n; no directory q
MaxInstalls == 2

PSite == << <<"v">>, SitePackagesText >>
PLib == << <<"l">> >>
PPackage == << <<"p">> >>

DirectUrls ==
    [
      editable_p |-> [valid |-> TRUE, url |-> <<"f", "i", "l", "e", ":", "/", "/", "/", "p">>, editable |-> "true"],
      \* the same directory, written with a final /
      editable_p_slash |->
          [valid |-> TRUE, url |-> <<"f", "i", "l", "e", ":", "/", "/", "/", "p", "/">>, editable |-> "true"],
      editable_o |-> [valid |-> TRUE, url |-> <<"f", "i", "l", "e", ":", "/", "/", "/", "o">>, editable |-> "true"],
      \* the target is no directory
      editable_q |-> [valid |-> TRUE, url |-> <<"f", "i", "l", "e", ":", "/", "/", "/", "q">>, editable |-> "true"],
      not_editable |-> [valid |-> TRUE, url |-> <<"f", "i", "l", "e", ":", "/", "/", "/", "o">>, editable |-> "false"],
      no_dir_info |-> [valid |-> TRUE, url |-> <<"f", "i", "l", "e", ":", "/", "/", "/", "o">>, editable |-> "absent"],
      no_editable |-> [valid |-> TRUE, url |-> <<"f", "i", "l", "e", ":", "/", "/", "/", "o">>, editable |-> "none"],
      \* no file URL
      remote |-> [valid |-> TRUE, url |-> <<"h", "t", "t", "p", ":", "/", "/", "o">>, editable |-> "true"],
      no_url |-> [valid |-> TRUE, url |-> NoValue, editable |-> "true"],
      \* not JSON
      invalid |-> [valid |-> FALSE, url |-> NoValue, editable |-> "absent"]
    ]

EditableN == [valid |-> TRUE, url |-> <<"f", "i", "l", "e", ":", "/", "/", "/", "n">>, editable |-> "true"]

DistInfoNames == << <<"a">>, <<"b">>, <<"d">>, <<"e">> >>

DistInfo(k) == PSite \o <<DistInfoNames[k] \o DistInfoSuffix>>

InstallsBase ==
    (PSite \o << <<"c">>, DirectUrlName >> :> EditableN)
    @@ (PLib \o << <<"a">> \o DistInfoSuffix, DirectUrlName >> :> EditableN)
    @@ (PPackage \o << <<"x">> >> :> <<>>)
    @@ (<< <<"o">>, <<"x">> >> :> <<>>)
    @@ (<< <<"n">>, <<"x">> >> :> <<>>)

\* the documents of the .dist-info directories: none or one of DirectUrls
InstallWorlds ==
    {InstallsBase
     @@ [f \in {DistInfo(k) \o <<DirectUrlName>> : k \in DOMAIN docs}
            |-> DirectUrls[docs[(CHOOSE k \in DOMAIN docs :
                                    f = DistInfo(k) \o <<DirectUrlName>>)]]] :
        docs \in UNION {[S -> DOMAIN DirectUrls] : S \in SUBSET (1..MaxInstalls)}}

\* the list before the call: directories only (main, lines 72-77)
InstallLists == {<<PSite>>, <<PLib, PSite>>, <<PPackage, PSite, PSite>>}

\* the contents given to find_type_checking_blocks on its own: at most
\* MaxGuardLines of these lines
MaxGuardLines == 4

GuardItems ==
    [
      guard |-> KwIf \o Sp \o KwTypeChecking \o <<":">>,
      \* a guard inside the block of a guard
      inner |-> <<" ", " ">> \o KwIf \o Sp \o KwTypeChecking \o <<":">>,
      deep |-> <<" ", " ", " ", " ", "y", " ", "=", " ", "2">>,
      mid |-> <<" ", " ", "x", " ", "=", " ", "1">>,
      top |-> <<"z", " ", "=", " ", "3">>
    ]

GuardTexts ==
    {PassText(items, final) :
        items \in UNION {[1..k -> {GuardItems[n] : n \in DOMAIN GuardItems}] :
                             k \in 0..MaxGuardLines},
        final \in BOOLEAN}

(***************************************************************************)
(* The state.                                                              *)
(***************************************************************************)
VARIABLES
    fs,          \* the storage provider: path -> content of each file
    args,        \* the arguments of run
    pc,          \* where run is: start, inlining, inlined, done, error, panic
    env,         \* run's locals python_sys_path and module_names
    stack,       \* one frame per active call of inline_imports
    processed,   \* the HashSet shared by all calls
    content,     \* run's local content, once inline_imports has returned
    log,         \* the decisions reported on verbose output, in order
    reads        \* the paths passed to read_to_string, in order

vars == <<fs, args, pc, env, stack, processed, content, log, reads>>

\* the entry file may be missing
Init ==
    \E e \in Entries, n \in NameLists, r \in BOOLEAN :
      \E w \in Worlds(e), present \in (IF e = <<>> THEN BOOLEAN ELSE {TRUE}) :
        /\ fs = (IF present THEN (PMain :> EntryText(e)) @@ w ELSE w)
        /\ args = [input_file |-> PMain, output_file |-> POut,
                   module_names |-> n, release |-> r,
                   python_sys_path |-> SuppliedRoots]
        /\ pc = "start"
        /\ env = [python_sys_path |-> <<>>, module_names |-> <<>>]
        /\ stack = <<>>
        /\ processed = {}
        /\ content = <<>>
        /\ log = <<>>
        /\ reads = <<>>

(***************************************************************************)
(* inline_imports as a stack machine.                                      *)
(***************************************************************************)
\* lines 226-263: a call reads the file and strips the blocks
NewFrame(file) ==
    [file |-> file,
     content_to_process |-> ContentToProcess(fs[file]),
     pos |-> 0,              \* where captures_iter searches next
     last_end |-> 0,
     result |-> <<>>,
     \* the import being inlined while a nested call runs
     indent |-> <<>>, submodule |-> <<>>, package |-> FALSE, end |-> 0]

Top == stack[Len(stack)]

SetTop(f) == [stack EXCEPT ![Len(stack)] = f]

\* the next match of the call on top
Match == NextImport(Top.content_to_process, Top.pos, env.module_names)

\* lines 314-408 for the match m of the call f
Resolution(f, m) ==
    Resolve(fs, ModulePaths(m.submodule, Parent(f.file),
                            env.python_sys_path), 1)

\* the indentation the callers' Return steps will add in front of what the
\* call on top writes
RECURSIVE Chain(_)
Chain(k) == IF k < 1 THEN <<>> ELSE Chain(k - 1) \o stack[k].indent

\* run, lines 87-113: up to the call of inline_imports on the entry file
Run ==
    /\ pc = "start"
    /\ env' = [python_sys_path |->
                   <<Parent(args.input_file)>> \o args.python_sys_path,
               module_names |-> ModuleAlternatives(args.module_names)]
    /\ IF Readable(fs, args.input_file)
       THEN /\ pc' = "inlining"
            /\ stack' = <<NewFrame(args.input_file)>>
            /\ reads' = Append(reads, args.input_file)
       ELSE /\ pc' = ReadError
            /\ UNCHANGED <<stack, reads>>
    /\ UNCHANGED <<fs, args, processed, content, log>>

\* line 312 with a match that starts before last_end: the slice panics
ImportPanic ==
    /\ pc = "inlining"
    /\ \E m \in {Match} : m.ok /\ m.start < Top.last_end
    /\ pc' = "panic"
    /\ UNCHANGED <<fs, args, env, stack, processed, content, log, reads>>

\* what the verbose output tells of the handling of the match m of f
Event(ev, f, m, r) ==
    [ev |-> ev, file |-> f.file, submodule |-> m.submodule,
     indent |-> m.indent, chain |-> Chain(Len(stack) - 1),
     path |-> IF r.found THEN r.path ELSE <<>>,
     package |-> r.found /\ r.package,
     root |-> IF r.found THEN r.root ELSE 0]

\* lines 266-327 and 409-415: no module path exists, the statement stays
ImportNotFound ==
    /\ pc = "inlining"
    /\ \E f \in {Top}, m \in {Match} :
         /\ m.ok
         /\ m.start >= f.last_end
         /\ \E c \in {f.content_to_process}, r \in {Resolution(f, m)} :
            \E end \in {SpanEnd(c, m)} :
              /\ ~r.found
              /\ stack' = SetTop([f EXCEPT
                     !.result = f.result \o Slice(c, f.last_end, m.start)
                                         \o KeptStatement(c, m.start, end),
                     !.last_end = end,
                     !.pos = m.end])
              /\ log' = Append(log, Event("notfound", f, m, r))
    /\ UNCHANGED <<fs, args, pc, env, processed, content, reads>>

\* lines 360-367 and 396-403: the path is in the processed set already
ImportAlready ==
    /\ pc = "inlining"
    /\ \E f \in {Top}, m \in {Match} :
         /\ m.ok
         /\ m.start >= f.last_end
         /\ \E c \in {f.content_to_process}, r \in {Resolution(f, m)} :
            \E end \in {SpanEnd(c, m)} :
              /\ r.found
              /\ r.path \in processed
              /\ stack' = SetTop([f EXCEPT
                     !.result = f.result \o Slice(c, f.last_end, m.start)
                         \o AlreadyBlock(args.release, m.indent, r.package,
                                         m.submodule),
                     !.last_end = end,
                     !.pos = m.end])
              /\ log' = Append(log, Event("already", f, m, r))
    /\ UNCHANGED <<fs, args, pc, env, processed, content, reads>>

\* lines 335-339 and 371-375: the path is new; it is inserted and
\* inline_imports is called on it
ImportInline ==
    /\ pc = "inlining"
    /\ \E f \in {Top}, m \in {Match} :
         /\ m.ok
         /\ m.start >= f.last_end
         /\ \E c \in {f.content_to_process}, r \in {Resolution(f, m)} :
            \E end \in {SpanEnd(c, m)} :
              /\ r.found
              /\ r.path \notin processed
              /\ processed' = Insert(processed, r.path)
              /\ log' = Append(log, Event("inline", f, m, r))
              /\ reads' = Append(reads, r.path)
              /\ IF Readable(fs, r.path)
                 THEN /\ stack' = Append(
                           SetTop([f EXCEPT
                               !.result = f.result
                                   \o Slice(c, f.last_end, m.start),
                               !.pos = m.end,
                               !.indent = m.indent,
                               !.submodule = m.submodule,
                               !.package = r.package,
                               !.end = end]),
                           NewFrame(r.path))
                      /\ pc' = pc
                 ELSE \* the error of read_to_string ends every call
                      /\ pc' = ReadError
                      /\ UNCHANGED stack
    /\ UNCHANGED <<fs, args, env, content>>

\* the value a call returns, lines 418-419
Returned(f) ==
    f.result \o Slice(f.content_to_process, f.last_end,
                      Len(f.content_to_process))

\* lines 418-419 of a nested call, then lines 340-359 or 376-395 and 415
\* of its caller
Return ==
    /\ pc = "inlining"
    /\ Len(stack) > 1
    /\ ~Match.ok
    /\ \E caller \in {stack[Len(stack) - 1]} :
           stack' = [SubSeq(stack, 1, Len(stack) - 1) EXCEPT
              ![Len(stack) - 1] = [caller EXCEPT
                  !.result = caller.result
                      \o InlinedBlock(args.release, caller.indent,
                                      caller.package, caller.submodule,
                                      Returned(Top)),
                  !.last_end = caller.end,
                  !.indent = <<>>, !.submodule = <<>>,
                  !.package = FALSE, !.end = 0]]
    /\ UNCHANGED <<fs, args, pc, env, processed, content, log, reads>>

\* lines 418-419 of the call on the entry file: run has its content
Inlined ==
    /\ pc = "inlining"
    /\ Len(stack) = 1
    /\ ~Match.ok
    /\ content' = Returned(Top)
    /\ stack' = <<>>
    /\ pc' = "inlined"
    /\ UNCHANGED <<fs, args, env, processed, log, reads>>

\* run, lines 114-122
WriteOutput ==
    /\ pc = "inlined"
    /\ content' = (IF args.release THEN Release(content) ELSE content)
    /\ fs' = (args.output_file :> content') @@ fs
    /\ pc' = "done"
    /\ UNCHANGED <<args, env, stack, processed, log, reads>>

Next ==
    \/ Run
    \/ ImportPanic
    \/ ImportNotFound
    \/ ImportAlready
    \/ ImportInline
    \/ Return
    \/ Inlined
    \/ WriteOutput

Spec == Init /\ [][Next]_vars

(***************************************************************************)
(* The release passes on their own: a release run on an entry file without *)
(* imports, and each pass applied to the text of the file.                 *)
(***************************************************************************)
PassInit ==
    \E t \in PassTexts :
        /\ fs = (PMain :> t)
        /\ args = [input_file |-> PMain, output_file |-> POut,
                   module_names |-> <<>>, release |-> TRUE,
                   python_sys_path |-> SuppliedRoots]
        /\ pc = "start"
        /\ env = [python_sys_path |-> <<>>, module_names |-> <<>>]
        /\ stack = <<>>
        /\ processed = {}
        /\ content = <<>>
        /\ log = <<>>
        /\ reads = <<>>

\* line 115 applied to the text of the file
PostProcessImports ==
    /\ pc = "start"
    /\ content' = post_process_imports(fs[args.input_file])
    /\ pc' = "post_process_imports"
    /\ UNCHANGED <<fs, args, env, stack, processed, log, reads>>

\* line 116 applied to the text of the file
StripDocstrings ==
    /\ pc = "start"
    /\ content' = strip_docstrings(fs[args.input_file])
    /\ pc' = "strip_docstrings"
    /\ UNCHANGED <<fs, args, env, stack, processed, log, reads>>

\* line 117 applied to the text of the file
StripComments ==
    /\ pc = "start"
    /\ content' = strip_comments(fs[args.input_file])
    /\ pc' = "strip_comments"
    /\ UNCHANGED <<fs, args, env, stack, processed, log, reads>>

\* line 118 applied to the text of the file
StripBlankLines ==
    /\ pc = "start"
    /\ content' = strip_blank_lines(fs[args.input_file])
    /\ pc' = "strip_blank_lines"
    /\ UNCHANGED <<fs, args, env, stack, processed, log, reads>>

PassNext ==
    \/ Run
    \/ Inlined
    \/ WriteOutput
    \/ PostProcessImports
    \/ StripDocstrings
    \/ StripComments
    \/ StripBlankLines

PassSpec == PassInit /\ [][PassNext]_vars

(***************************************************************************)
(* post_process_imports on its own, applied to the text of the entry file. *)
(***************************************************************************)
ImportInit ==
    \E t \in ImportTexts :
        /\ fs = (PMain :> t)
        /\ args = [input_file |-> PMain, output_file |-> POut,
                   module_names |-> <<>>, release |-> TRUE,
                   python_sys_path |-> SuppliedRoots]
        /\ pc = "start"
        /\ env = [python_sys_path |-> <<>>, module_names |-> <<>>]
        /\ stack = <<>>
        /\ processed = {}
        /\ content = <<>>
        /\ log = <<>>
        /\ reads = <<>>

ImportNext == PostProcessImports

ImportSpec == ImportInit /\ [][ImportNext]_vars

(***************************************************************************)
(* handle_editable_installs on its own (main, line 79): the frame of the   *)
(* call holds the directories still to visit and the entries of the        *)
(* current directory still to visit, in the order read_dir gave them.      *)
(***************************************************************************)
InstallsInit ==
    \E w \in InstallWorlds, l \in InstallLists :
        /\ fs = w
        /\ args = [input_file |-> PMain, output_file |-> POut,
                   module_names |-> <<>>, release |-> FALSE,
                   python_sys_path |-> l]
        /\ pc = "start"
        /\ env = [python_sys_path |-> l, module_names |-> <<>>]
        /\ stack = <<>>
        /\ processed = {}
        /\ content = <<>>
        /\ log = <<>>
        /\ reads = <<>>

\* the orders in which read_dir may give the entries
Orders(S) ==
    {o \in [1..Cardinality(S) -> S] : \A x \in S : \E k \in DOMAIN o : o[k] = x}

\* lines 128-132
HandleEditableInstalls ==
    /\ pc = "start"
    /\ stack' = <<[site_packages_paths |->
                       SitePackagesOnly(env.python_sys_path),
                   entries |-> <<>>]>>
    /\ pc' = "handle_editable_installs"
    /\ UNCHANGED <<fs, args, env, processed, content, log, reads>>

\* lines 134-138: the next directory of site_packages_paths
InstallsDirectory ==
    /\ pc = "handle_editable_installs"
    /\ stack[1].entries = <<>>
    /\ stack[1].site_packages_paths # <<>>
    /\ \E order \in Orders(IF IsDir(fs, Head(stack[1].site_packages_paths))
                           THEN ReadDir(fs, Head(stack[1].site_packages_paths))
                           ELSE {}) :
          stack' = <<[site_packages_paths |->
                          Tail(stack[1].site_packages_paths),
                      entries |-> order]>>
    /\ UNCHANGED <<fs, args, pc, env, processed, content, log, reads>>

\* lines 139-142: an entry that is no .dist-info directory or holds no
\* direct_url.json
InstallsSkip ==
    /\ pc = "handle_editable_installs"
    /\ stack[1].entries # <<>>
    /\ ~(/\ IsDistInfo(fs, Head(stack[1].entries))
         /\ Exists(fs, Head(stack[1].entries) \o <<DirectUrlName>>))
    /\ stack' = <<[stack[1] EXCEPT !.entries = Tail(@)]>>
    /\ UNCHANGED <<fs, args, pc, env, processed, content, log, reads>>

\* lines 143-144: read_to_string or serde_json::from_str fails, and the ?
\* operator returns the error
InstallsError ==
    /\ pc = "handle_editable_installs"
    /\ stack[1].entries # <<>>
    /\ IsDistInfo(fs, Head(stack[1].entries))
    /\ \E d \in {Head(stack[1].entries) \o <<DirectUrlName>>} :
          /\ Exists(fs, d)
          /\ ~(Readable(fs, d) /\ fs[d].valid)
          /\ reads' = Append(reads, d)
    /\ stack' = <<>>
    /\ pc' = "error"
    /\ UNCHANGED <<fs, args, env, processed, content, log>>

\* lines 143-157: the document of an entry is read and handled
InstallsDocument ==
    /\ pc = "handle_editable_installs"
    /\ stack[1].entries # <<>>
    /\ IsDistInfo(fs, Head(stack[1].entries))
    /\ \E d \in {Head(stack[1].entries) \o <<DirectUrlName>>} :
          /\ Readable(fs, d)
          /\ fs[d].valid
          /\ reads' = Append(reads, d)
          /\ env' = [env EXCEPT !.python_sys_path =
                                    WithPackagePath(fs, @, fs[d])]
    /\ stack' = <<[stack[1] EXCEPT !.entries = Tail(@)]>>
    /\ UNCHANGED <<fs, args, pc, processed, content, log>>

\* line 163
InstallsReturn ==
    /\ pc = "handle_editable_installs"
    /\ stack[1].entries = <<>>
    /\ stack[1].site_packages_paths = <<>>
    /\ stack' = <<>>
    /\ pc' = "installs_handled"
    /\ UNCHANGED <<fs, args, env, processed, content, log, reads>>

InstallsNext ==
    \/ HandleEditableInstalls
    \/ InstallsDirectory
    \/ InstallsSkip
    \/ InstallsError
    \/ InstallsDocument
    \/ InstallsReturn

InstallsSpec == InstallsInit /\ [][InstallsNext]_vars

(***************************************************************************)
(* find_type_checking_blocks and the skip loop of inline_imports on their  *)
(* own, applied to the text of the entry file: log holds the ranges.       *)
(***************************************************************************)
BlocksInit ==
    \E t \in GuardTexts :
        /\ fs = (PMain :> t)
        /\ args = [input_file |-> PMain, output_file |-> POut,
                   module_names |-> <<>>, release |-> FALSE,
                   python_sys_path |-> SuppliedRoots]
        /\ pc = "start"
        /\ env = [python_sys_path |-> <<>>, module_names |-> <<>>]
        /\ stack = <<>>
        /\ processed = {}
        /\ content = <<>>
        /\ log = <<>>
        /\ reads = <<>>

\* line 230
FindTypeCheckingBlocks ==
    /\ pc = "start"
    /\ log' = find_type_checking_blocks(fs[args.input_file])
    /\ pc' = "find_type_checking_blocks"
    /\ UNCHANGED <<fs, args, env, stack, processed, content, reads>>

\* lines 239-261
SkipTypeCheckingBlocks ==
    /\ pc = "find_type_checking_blocks"
    /\ content' = SkipBlocks(fs[args.input_file], log, 1, 0)
    /\ pc' = "content_to_process"
    /\ UNCHANGED <<fs, args, env, stack, processed, log, reads>>

BlocksNext == FindTypeCheckingBlocks \/ SkipTypeCheckingBlocks

BlocksSpec == BlocksInit /\ [][BlocksNext]_vars

(***************************************************************************)
(* VirtualFileSystem (modules/virtual_filesystem.rs).  The tree under      *)
(* root is a function from the component sequences of its nodes to the     *)
(* nodes; the empty sequence is root itself.  In a run of the file system  *)
(* fs holds the tree, args the path and contents of the last call, env     *)
(* whether the call returned Ok, content what read_to_string returned,     *)
(* and log the contents of the last successful write under every path.     *)
(***************************************************************************)
MaxContents == 2

VirtualDirectory == [kind |-> "Directory", contents |-> <<>>]

VirtualFile(contents) == [kind |-> "File", contents |-> contents]

\* VirtualFileSystem::new, lines 29-34
New == <<>> :> VirtualDirectory

\* resolve_path, lines 36-62, of an absolute path with cwd "/": a normal
\* component is pushed; a parent component pops current_path only, the
\* components collected so far stay
resolve_path(path) == SelectSeq(path, LAMBDA c : c # "..")

\* get_node and get_node_mut, lines 64-96
RECURSIVE get_node(_, _, _)
get_node(root, path, k) ==
    IF k = Len(path) THEN [ok |-> TRUE, node |-> root[path]]
    ELSE IF root[SubSeq(path, 1, k)].kind = "File"
    THEN [ok |-> FALSE, node |-> "Not a directory"]
    ELSE IF SubSeq(path, 1, k + 1) \notin DOMAIN root
    THEN [ok |-> FALSE, node |-> "Path not found"]
    ELSE get_node(root, path, k + 1)

\* HashMap::insert at line 119: the node under the name is replaced, with
\* all that was below it
InsertNode(root, components, node) ==
    [q \in {q \in DOMAIN root : ~IsPrefix(components, q)} \cup {components}
        |-> IF q = components THEN node ELSE root[q]]

\* write, lines 110-124, for a path with at least one component
write(root, components, contents) ==
    IF ~get_node(root, Parent(components), 0).ok
    THEN [ok |-> FALSE, root |-> root]
    ELSE IF get_node(root, Parent(components), 0).node.kind = "Directory"
    THEN [ok |-> TRUE,
          root |-> InsertNode(root, components, VirtualFile(contents))]
    ELSE [ok |-> FALSE, root |-> root]

\* read_to_string, lines 126-132
read_to_string(root, components) ==
    IF ~get_node(root, components, 0).ok
    THEN [ok |-> FALSE, contents |-> <<>>]
    ELSE IF get_node(root, components, 0).node.kind = "File"
    THEN [ok |-> TRUE, contents |-> get_node(root, components, 0).node.contents]
    ELSE [ok |-> FALSE, contents |-> <<>>]

\* the entry of line 141-151: a vacant name gets an empty directory
WithEntry(root, path) ==
    IF path \in DOMAIN root THEN root ELSE root @@ (path :> VirtualDirectory)

\* mkdir_p, lines 134-161
RECURSIVE mkdir_p(_, _, _)
mkdir_p(root, components, k) ==
    IF k = Len(components) THEN [ok |-> TRUE, root |-> root]
    ELSE IF root[SubSeq(components, 1, k)].kind = "File"
    THEN [ok |-> FALSE, root |-> root]
    ELSE IF WithEntry(root, SubSeq(components, 1, k + 1))
                [SubSeq(components, 1, k + 1)].kind = "File"
    THEN [ok |-> FALSE,
          root |-> WithEntry(root, SubSeq(components, 1, k + 1))]
    ELSE mkdir_p(WithEntry(root, SubSeq(components, 1, k + 1)),
                 components, k + 1)

\* the paths and the contents the operations are called with
VfsPaths ==
    { <<>>, <<"a">>, <<"a", "b">>, <<"a", "..", "b">>, <<"c">> }

ContentPool == <<"x", "y", "z", "w">>

VfsContents == {<<ContentPool[k]>> : k \in 1..MaxContents}

NoWrite == <<"?", "?">>

VfsInit ==
    /\ fs = New
    /\ args = [path |-> <<>>, contents |-> <<>>]
    /\ pc = "new"
    /\ env = [ok |-> TRUE]
    /\ stack = <<>>
    /\ processed = {}
    /\ content = <<>>
    /\ log = [p \in VfsPaths |-> NoWrite]
    /\ reads = <<>>

Mkdir_p ==
    /\ pc # "panic"
    /\ \E path \in VfsPaths :
          /\ fs' = mkdir_p(fs, resolve_path(path), 0).root
          /\ env' = [ok |-> mkdir_p(fs, resolve_path(path), 0).ok]
          /\ args' = [path |-> path, contents |-> <<>>]
    /\ pc' = "mkdir_p"
    /\ UNCHANGED <<stack, processed, content, log, reads>>

Write ==
    /\ pc # "panic"
    /\ \E path \in VfsPaths, contents \in VfsContents :
          /\ resolve_path(path) # <<>>
          /\ fs' = write(fs, resolve_path(path), contents).root
          /\ env' = [ok |-> write(fs, resolve_path(path), contents).ok]
          /\ args' = [path |-> path, contents |-> contents]
          /\ log' = IF write(fs, resolve_path(path), contents).ok
                    THEN [log EXCEPT ![path] = contents]
                    ELSE log
    /\ pc' = "write"
    /\ UNCHANGED <<stack, processed, content, reads>>

\* line 112 for a path without a component: components.len() - 1
\* underflows, the slice is out of range
WritePanics ==
    /\ pc # "panic"
    /\ \E path \in VfsPaths, contents \in VfsContents :
          /\ resolve_path(path) = <<>>
          /\ args' = [path |-> path, contents |-> contents]
    /\ pc' = "panic"
    /\ UNCHANGED <<fs, env, stack, processed, content, log, reads>>

Read_to_string ==
    /\ pc # "panic"
    /\ \E path \in VfsPaths :
          /\ content' = read_to_string(fs, resolve_path(path)).contents
          /\ env' = [ok |-> read_to_string(fs, resolve_path(path)).ok]
          /\ args' = [path |-> path, contents |-> <<>>]
    /\ pc' = "read_to_string"
    /\ UNCHANGED <<fs, stack, processed, log, reads>>

VfsNext == Mkdir_p \/ Write \/ WritePanics \/ Read_to_string

VfsSpec == VfsInit /\ [][VfsNext]_vars

(***************************************************************************)
(* What is observed of a run.                                              *)
(***************************************************************************)
\* inline_imports has just returned to run
Final == pc = "inlined"

\* the run is over: inline_imports returned, failed or panicked
Halted == pc \notin {"start", "inlining"}

OutLines == Lines(content)

Chars(text) == {text[k] : k \in 1..Len(text)}

\* the number of lines of ls equal to l
CountLine(ls, l) == Cardinality({k \in 1..Len(ls) : ls[k] = l})

\* the number of occurrences of pat in text
RECURSIVE CountFrom(_, _, _)
CountFrom(text, pat, i) ==
    IF i + Len(pat) > Len(text) THEN 0
    ELSE (IF HasAt(text, i, pat) THEN 1 ELSE 0) + CountFrom(text, pat, i + 1)

Count(text, pat) == CountFrom(text, pat, 0)

EventsOf(ev) == {k \in 1..Len(log) : log[k].ev = ev}

Resolved == {k \in 1..Len(log) : log[k].ev # "notfound"}

ResolvedPaths == {log[k].path : k \in Resolved}

Range(s) == {s[k] : k \in 1..Len(s)}

\* the statements of a file that are no imports: its assignments
BodyLinesIn(ls) ==
    {l \in Range(ls) : "=" \in Chars(l) /\ ~HasAt(TrimStart(l), 0, KwFrom)}

BodyLines(path) == UNION {BodyLinesIn(ls) : ls \in {Lines(fs[path])}}

\* the copies of the line l among the lines ol, whatever their indentation
Copies(ol, l) == {k \in 1..Len(ol) : TrimStart(ol[k]) = l}

\* the module list names m, and a file of m exists in a search root
Configured(name) ==
    \E k \in 1..Len(Split(args.module_names, ",")) :
        Trim(Split(args.module_names, ",")[k]) = name

MResolvable == DOMAIN fs \cap DOMAIN ModuleFiles # {}

\* the lines of the files read by the first n calls of inline_imports
RECURSIVE LinesRead(_)
LinesRead(n) ==
    IF n = 0 THEN 0
    ELSE LinesRead(n - 1)
         + (IF reads[n] \in DOMAIN fs THEN Len(Lines(fs[reads[n]])) ELSE 0)

\* the progress of a run: imports handled, calls returned, stages passed
Measure ==
    2 * Len(log) - Len(stack)
    + (CASE pc = "start" -> 0
         [] pc = "inlining" -> 2
         [] pc = "inlined" -> 4
         [] OTHER -> 5)

(***************************************************************************)
(* The claims.                                                             *)
(***************************************************************************)
\* C1: when inline_imports has returned, every file other than the entry
\* file that an import resolved to was inlined by exactly one import, the
\* first of the run that resolved to it, and each statement of its body
\* occurs exactly once in the output.
C1_InlinedExactlyOnce ==
    Final =>
      \A ol \in {OutLines}, p \in ResolvedPaths \ {args.input_file} :
        /\ Cardinality({k \in EventsOf("inline") : log[k].path = p}) = 1
        /\ \A k \in Resolved :
              log[k].path = p =>
                \E j \in 1..k : log[j].ev = "inline" /\ log[j].path = p
        /\ \A l \in BodyLines(p) : Cardinality(Copies(ol, l)) = 1

\* a file was inlined and then imported again from another file
C1_Witness ==
    /\ Final
    /\ \E j, k \in 1..Len(log) :
         /\ j < k
         /\ log[j].ev = "inline"
         /\ log[k].ev = "already"
         /\ log[j].path = log[k].path
         /\ log[j].file # log[k].file
         /\ log[k].chain # <<>>

\* C2: for every import graph, cycles through the entry file included,
\* the number of calls of inline_imports (one read_to_string each) is at
\* most the number of distinct resolved paths plus one, no error is raised
\* unless a read fails, and the run comes to its end: each call handles at
\* most one import per line of its file, and every step increases a
\* measure these two numbers bound.
C2_CallsBounded ==
    /\ Len(reads) <= Cardinality(ResolvedPaths) + 1
    /\ Len(stack) <= Cardinality(ResolvedPaths) + 1
    /\ pc = "error" =>
          \/ ~Readable(fs, args.input_file)
          \/ reads # <<>> /\ ~Readable(fs, reads[Len(reads)])
    /\ Len(log) <= LinesRead(Len(reads))

C2_Terminates == [](C2_CallsBounded) /\ [][Measure' > Measure]_vars

\* a file that imports itself and the entry file was inlined, and the
\* entry file within it
C2_Witness ==
    /\ Final
    /\ \E j, k \in 1..Len(log) :
         /\ log[j].ev = "already"
         /\ log[j].file = log[j].path
         /\ log[k].ev = "inline"
         /\ log[k].path = args.input_file
\* the marker line expected for the repeated import e
AlreadyLine(e) ==
    e.chain \o e.indent \o AlreadyOpen \o e.submodule
    \o (IF e.path[Len(e.path)] = "__init__.py"
        THEN AlreadyPackage ELSE AlreadyModule)

\* the line l is an import statement of the module reference
IsImportOf(l, submodule) ==
    HasAt(TrimStart(l), 0, KwFrom \o Sp \o submodule \o Sp \o KwImport)

\* C3: when inline_imports has returned, the files read are the entry file
\* and the file of each inlining import, so an import of a path that is in
\* the processed set reads nothing; no line of the output is an import
\* statement of the module reference of such an import; in release mode
\* the output holds no marker of a repeated import, and otherwise it holds
\* one marker line per repeated import, at the import's indentation.
C3_RepeatedImport ==
    Final =>
      \A ol \in {OutLines} :
        /\ Len(reads) = 1 + Cardinality(EventsOf("inline"))
        /\ \A p \in ResolvedPaths \ {args.input_file} :
              Cardinality({k \in 1..Len(reads) : reads[k] = p}) = 1
        /\ \A k \in EventsOf("already") :
              \A i \in 1..Len(ol) : ~IsImportOf(ol[i], log[k].submodule)
        /\ IF args.release
           THEN "→" \notin Chars(content) /\ "←" \notin Chars(content)
           ELSE /\ Cardinality({i \in 1..Len(ol) : "→" \in Chars(ol[i])})
                   = Cardinality(EventsOf("already"))
                /\ \A k \in EventsOf("already") :
                      \A al \in {AlreadyLine(log[k])} :
                         CountLine(ol, al)
                         = Cardinality({j \in EventsOf("already") :
                               AlreadyLine(log[j]) = al})

\* a repeated import at an indentation, inside an inlined file
C3_Witness ==
    /\ Final
    /\ \E k \in EventsOf("already") :
         log[k].indent # <<>> /\ log[k].chain # <<>>

\* C4: without release, an entry file that holds no TYPE_CHECKING guard
\* and whose matched imports all resolve to no file is written to the
\* output file as it is.
C4_UnresolvedRoundTrip ==
    ( /\ pc = "done"
      /\ ~args.release
      /\ Count(fs[args.input_file], KwTypeChecking) = 0
      /\ \A k \in 1..Len(log) : log[k].ev = "notfound" )
    => fs[args.output_file] = fs[args.input_file]

\* an entry file with an unresolved single-line import and an unresolved
\* import that opens a parenthesis was written
C4_Witness ==
    /\ pc = "done"
    /\ ~args.release
    /\ Count(fs[args.input_file], KwTypeChecking) = 0
    /\ \A k \in 1..Len(log) : log[k].ev = "notfound"
    /\ \E j, k \in 1..Len(log) : j # k
    /\ Count(fs[args.input_file], <<"(", "\n">>) = 1
    /\ Count(fs[args.input_file], <<"y", "\n">>) = 1

\* C5: when inline_imports has returned, each statement of the body of an
\* inlined file stands in the output behind the indentations of the
\* imports it was inlined through, outermost first, and behind nothing
\* else; no line of the output is made of whitespace only, so the empty
\* lines stay empty.
C5_Reindented ==
    Final =>
      \A ol \in {OutLines} :
        /\ \A k \in EventsOf("inline") :
              \A l \in BodyLines(log[k].path) :
                 \E i \in Copies(ol, l) :
                    ol[i] = log[k].chain \o log[k].indent \o l
        /\ \A p \in DOMAIN fs \ {args.output_file} :
              \A l \in BodyLines(p) :
                 \A i \in Copies(ol, l) :
                    \/ p = args.input_file /\ ol[i] = l
                    \/ \E k \in EventsOf("inline") :
                          /\ log[k].path = p
                          /\ ol[i] = log[k].chain \o log[k].indent \o l
        /\ \A i \in 1..Len(ol) : ol[i] = <<>> \/ Trim(ol[i]) # <<>>

\* a file with an empty line was inlined at an indentation, and another
\* file at an indentation within it
C5_Witness ==
    /\ Final
    /\ \E j, k \in EventsOf("inline") :
         /\ log[j].indent # <<>>
         /\ <<>> \in Range(Lines(fs[log[j].path]))
         /\ log[k].file = log[j].path
         /\ log[k].indent # <<>>
         /\ log[k].chain = log[j].indent

\* the marker lines expected around the file inlined by the import e
KindOf(path) ==
    IF path[Len(path)] = "__init__.py" THEN KindPackage ELSE KindSubmodule

LeadingLine(e) ==
    e.chain \o e.indent \o MarkDownText \o KindOf(e.path) \o <<":", " ">>
    \o e.submodule

TrailingLine(e) ==
    e.chain \o e.indent \o MarkUpText \o KindOf(e.path) \o <<":", " ">>
    \o e.submodule

\* C6: when inline_imports has returned without release, the output holds
\* for each inlined file a leading and a trailing marker line with the
\* import's indentation and module reference, the kind package for an
\* __init__.py and submodule otherwise, with the statements of the file
\* between them, and it holds no other such marker line; with release it
\* holds no marker line.
C6_Markers ==
    Final =>
      IF args.release
      THEN "↓" \notin Chars(content) /\ "↑" \notin Chars(content)
      ELSE \A ol \in {OutLines} :
             /\ \A k \in EventsOf("inline") :
                  \E i \in Copies(ol, TrimStart(LeadingLine(log[k]))) :
                  \E j \in Copies(ol, TrimStart(TrailingLine(log[k]))) :
                     /\ i < j
                     /\ ol[i] = LeadingLine(log[k])
                     /\ ol[j] = TrailingLine(log[k])
                     /\ \A l \in BodyLines(log[k].path) :
                           \E b \in (i + 1)..(j - 1) :
                              ol[b] = log[k].chain \o log[k].indent \o l
             /\ Cardinality({i \in 1..Len(ol) : "↓" \in Chars(ol[i])})
                = Cardinality(EventsOf("inline"))
             /\ Cardinality({i \in 1..Len(ol) : "↑" \in Chars(ol[i])})
                = Cardinality(EventsOf("inline"))

\* a package and a module file were inlined without release
C6_Witness ==
    /\ Final
    /\ ~args.release
    /\ \E j, k \in EventsOf("inline") :
         /\ log[j].path[Len(log[j].path)] = "__init__.py"
         /\ log[k].path[Len(log[k].path)] # "__init__.py"
         /\ log[k].indent # <<>>
\* the entry file holds no TYPE_CHECKING guard
NoGuard == Count(fs[args.input_file], KwTypeChecking) = 0

\* C7: when inline_imports has returned for an entry file without a guard
\* whose imports all resolved, m being a local module with a file, no
\* parenthesis and no name of a parenthesized import is left in the
\* output, however the names are laid out across the lines.
C7_MultiLineRemoved ==
    ( /\ Final
      /\ NoGuard
      /\ Configured(<<"m">>)
      /\ MResolvable
      /\ \A k \in 1..Len(log) : log[k].ev # "notfound" )
    => /\ "(" \notin Chars(content)
       /\ ")" \notin Chars(content)
       /\ "z" \notin Chars(content)

\* the names the module list gives: its pieces that are not blank
GivenNames ==
    {Trim(Split(args.module_names, ",")[k]) :
        k \in 1..Len(Split(args.module_names, ","))} \ {<<>>}

XImport == FromImport(<<>>, <<"x">>, <<"y">>)

\* C8: every import inline_imports resolves has a module reference that
\* starts with a dot or with a name the module list gives, and an entry
\* file without a guard keeps its imports of x, which the list never
\* names, in the output, whether a file of x exists or not.
C8_OnlyConfiguredPrefixes ==
    /\ \A k \in Resolved :
          \/ HasAt(log[k].submodule, 0, <<".">>)
          \/ \E name \in GivenNames : HasAt(log[k].submodule, 0, name)
    /\ (Final /\ NoGuard) =>
          \A ol \in {OutLines} :
             CountLine(ol, XImport)
             >= CountLine(Lines(fs[args.input_file]), XImport)

PlainImport == KwImport \o <<" ", "m">>

\* C9 as stated: when inline_imports has returned for an entry file
\* without a guard, m being a local module with a file, no plain import
\* of m is left in the output.
C9_BothFormsInlined ==
    (Final /\ NoGuard /\ Configured(<<"m">>) /\ MResolvable)
    => \A ol \in {OutLines} : CountLine(ol, PlainImport) = 0

\* C9 amended: only the from form is inlined.  When inline_imports has
\* returned, the output holds every plain import of the entry file, once
\* for each time the entry file was read, and, m being a local module
\* with a file, no from-import of m.
C9_OnlyFromFormInlined ==
    Final =>
      \A ol \in {OutLines} :
        /\ Cardinality(Copies(ol, PlainImport))
           = CountLine(Lines(fs[args.input_file]), PlainImport)
             * Cardinality({k \in 1..Len(reads) :
                               reads[k] = args.input_file})
        /\ (Configured(<<"m">>) /\ MResolvable) =>
              \A i \in 1..Len(ol) : ~IsImportOf(ol[i], <<"m">>)

\* an entry file with a plain import and a from-import of m, m being a
\* local module with a file
C9_Witness ==
    /\ Final
    /\ Configured(<<"m">>)
    /\ MResolvable
    /\ CountLine(Lines(fs[args.input_file]), PlainImport) = 1
    /\ Cardinality(Copies(OutLines, PlainImport)) = 1
    /\ \E k \in EventsOf("inline") :
         log[k].file = args.input_file /\ log[k].submodule = <<"m">>

\* the search roots: the directory of the entry file, then the supplied
SearchRoots == <<Parent(args.input_file)>> \o args.python_sys_path

\* the root contains the path: as a file or as a directory
HasPackage(root, name) == Exists(fs, root \o <<name, "__init__.py">>)

HasModule(root, name) == Exists(fs, root \o <<name \o ".py">>)

Hits(name) ==
    {i \in 1..Len(SearchRoots) :
        HasPackage(SearchRoots[i], name) \/ HasModule(SearchRoots[i], name)}

FirstHit(name) == CHOOSE i \in Hits(name) : \A j \in Hits(name) : i <= j

\* C10: every import of a non-relative module reference is resolved in
\* the first search root, the directory of the entry file being the first
\* and the supplied roots following in their order, that holds the
\* package or the module file, to the package if that root holds both,
\* and it is unresolved only if no root holds either.
C10_SearchOrder ==
    \A k \in 1..Len(log) :
       ~HasAt(log[k].submodule, 0, <<".">>) =>
          IF Hits(Str(log[k].submodule)) = {}
          THEN log[k].ev = "notfound"
          ELSE /\ log[k].ev # "notfound"
               /\ log[k].root = FirstHit(Str(log[k].submodule))
               /\ log[k].path =
                    SearchRoots[FirstHit(Str(log[k].submodule))]
                    \o (IF HasPackage(
                               SearchRoots[FirstHit(Str(log[k].submodule))],
                               Str(log[k].submodule))
                        THEN <<Str(log[k].submodule), "__init__.py">>
                        ELSE <<Str(log[k].submodule) \o ".py">>)

\* the first supplied root holds the package and the module file, the
\* second holds the module file, the directory of the entry file neither
C10_Witness ==
    /\ Final
    /\ Hits("m") = {2, 3}
    /\ HasPackage(SearchRoots[2], "m") /\ HasModule(SearchRoots[2], "m")
    /\ \E k \in EventsOf("inline") :
         log[k].submodule = <<"m">> /\ log[k].path = PRP

(***************************************************************************)
(* C11: TYPE_CHECKING blocks.                                              *)
(***************************************************************************)
Indent(l) == Len(l) - Len(TrimStart(l))

IsGuardLine(l) == GuardMatchAt(l, 0).ok

\* the lines outside the blocks: a guard line opens a block, which holds
\* the following lines that are blank or indented deeper than the guard;
\* guard is the indentation of the open guard, -1 outside a block
RECURSIVE OutsideBlocks(_, _, _)
OutsideBlocks(ls, k, guard) ==
    IF k > Len(ls) THEN <<>>
    ELSE IF IsGuardLine(ls[k]) /\ (guard < 0 \/ Indent(ls[k]) <= guard)
         THEN OutsideBlocks(ls, k + 1, Indent(ls[k]))
    ELSE IF guard >= 0 /\ (Trim(ls[k]) = <<>> \/ Indent(ls[k]) > guard)
         THEN OutsideBlocks(ls, k + 1, guard)
    ELSE <<ls[k]>> \o OutsideBlocks(ls, k + 1, -1)

\* the import statements handled in the file: their first lines
HandledIn(file) ==
    {log[k].indent \o KwFrom \o Sp \o log[k].submodule :
        k \in {j \in 1..Len(log) : log[j].file = file}}

\* C11: in every call of inline_imports the text that is scanned for
\* imports and copied to the output is the text of the file without its
\* TYPE_CHECKING blocks (the guard line and the following lines that are
\* blank or indented deeper than the guard), every other line is kept, and
\* every import that is handled stands on a line outside the blocks.
C11_BlocksRemoved ==
    \A k \in 1..Len(stack) :
       \A kept \in {OutsideBlocks(Lines(fs[stack[k].file]), 1, -1)} :
          /\ Lines(stack[k].content_to_process) = kept
          /\ \A h \in HandledIn(stack[k].file) :
                \E i \in 1..Len(kept) : HasAt(kept[i], 0, h)

(***************************************************************************)
(* C12: a failed read.                                                     *)
(***************************************************************************)
\* read_to_string failed on the entry file or on a file chosen for inlining
ReadFailed ==
    \/ pc # "start" /\ ~Readable(fs, args.input_file)
    \/ reads # <<>> /\ ~Readable(fs, reads[Len(reads)])

\* C12: once the read of the entry file or of a file selected for inlining
\* has failed, run has returned the error: it takes no further step, the
\* output file is not written, and no file was modified (the files change
\* only in the step that writes the output after inlining has finished).
C12_ReadFailureAborts ==
    /\ [](ReadFailed => pc = "error" /\ args.output_file \notin DOMAIN fs)
    /\ [][pc # "error" /\ (fs' # fs => pc = "inlined")]_vars

\* a read failed in a nested call (the file is a directory) after the entry
\* file and a first module were read
C12_Witness ==
    /\ pc = "error"
    /\ Len(reads) >= 3
    /\ Exists(fs, reads[Len(reads)])
    /\ ~Readable(fs, reads[Len(reads)])

(***************************************************************************)
(* C13: the write of the output.                                           *)
(***************************************************************************)
\* what run writes, from the result of inline_imports
Written(inlined) ==
    IF args.release
    THEN strip_blank_lines(strip_comments(strip_docstrings(
             post_process_imports(inlined))))
    ELSE inlined

\* C13: the files change in one step only, taken when inline_imports has
\* returned from its outermost call; it writes the output file and nothing
\* else, with the four passes applied in the order post_process_imports,
\* strip_docstrings, strip_comments, strip_blank_lines to the inlined text
\* when release is set and with the inlined text itself otherwise; run takes
\* no step after it, and a run that is done has written its output.
C13_WrittenOnce ==
    /\ [](pc = "done" => args.output_file \in DOMAIN fs)
    /\ [][/\ pc # "done"
          /\ fs' # fs =>
               /\ pc = "inlined" /\ stack = <<>> /\ pc' = "done"
               /\ fs' = (args.output_file :> Written(content)) @@ fs]_vars

\* a release run has written its output after it inlined the file with a
\* docstring, comments and a blank line
C13_Witness ==
    /\ pc = "done"
    /\ args.release
    /\ \E k \in 1..Len(log) : log[k].ev = "inline" /\ fs[log[k].path] = ARich
    /\ fs[args.output_file] # fs[args.input_file]

(***************************************************************************)
(* Python text as the claims about the release passes read it.             *)
(***************************************************************************)
\* the offsets of the # that start a comment: a # outside every string
\* literal.  mode is "code", "string" (quote q, ends at q or at the line
\* end), "triple" (quote q three times) or "comment"; a backslash in a
\* string takes the next character with it.
RECURSIVE CommentStartsFrom(_, _, _, _)
CommentStartsFrom(text, i, mode, q) ==
    IF i >= Len(text) THEN {}
    ELSE IF mode = "code"
    THEN IF At(text, i) = "#"
         THEN {i} \cup CommentStartsFrom(text, i + 1, "comment", q)
         ELSE IF At(text, i) \in {"\"", "'"}
         THEN IF HasAt(text, i, <<At(text, i), At(text, i), At(text, i)>>)
              THEN CommentStartsFrom(text, i + 3, "triple", At(text, i))
              ELSE CommentStartsFrom(text, i + 1, "string", At(text, i))
         ELSE CommentStartsFrom(text, i + 1, "code", q)
    ELSE IF mode = "comment"
    THEN CommentStartsFrom(text, i + 1,
                           IF At(text, i) = "\n" THEN "code" ELSE "comment", q)
    ELSE IF At(text, i) = "\\"
    THEN CommentStartsFrom(text, i + 2, mode, q)
    ELSE IF mode = "string"
    THEN CommentStartsFrom(text, i + 1,
                           IF At(text, i) \in {q, "\n"} THEN "code"
                           ELSE "string", q)
    ELSE IF HasAt(text, i, <<q, q, q>>)
    THEN CommentStartsFrom(text, i + 3, "code", q)
    ELSE CommentStartsFrom(text, i + 1, "triple", q)

CommentStarts(text) == CommentStartsFrom(text, 0, "code", "")

\* the number of the line (from 1) that holds the offset
LineOf(text, offset) ==
    1 + Cardinality({j \in 0..(offset - 1) : At(text, j) = "\n"})

\* the lines of a metadata block: a block starts at a line # ///... outside
\* a block and ends at the next line that is # /// or #///
RECURSIVE MetadataLines(_, _, _)
MetadataLines(ls, k, inside) ==
    IF k > Len(ls) THEN {}
    ELSE IF inside
    THEN {k} \cup MetadataLines(ls, k + 1,
                                ~IsPep723End(TrimStart(ls[k])))
    ELSE IF IsPep723Start(TrimStart(ls[k]))
    THEN {k} \cup MetadataLines(ls, k + 1, TRUE)
    ELSE MetadataLines(ls, k + 1, FALSE)

\* the lines whose comments the release passes are to keep
KeptCommentLines(text) ==
    (IF IsShebang(text) THEN {1} ELSE {}) \cup MetadataLines(Lines(text), 1, FALSE)

(***************************************************************************)
(* C14: the release output.                                                *)
(***************************************************************************)
\* C14: the output of a release run holds no line that is empty or blank,
\* and no comment outside string literals except on a shebang first line
\* and on the lines of a metadata block.
C14_ReleaseOutputClean ==
    pc = "done" /\ args.release =>
      \A out \in {fs[args.output_file]} :
         /\ \A ol \in {Lines(out)} :
               \A i \in 1..Len(ol) : Trim(ol[i]) # <<>>
         /\ \A o \in CommentStarts(out) :
               LineOf(out, o) \in KeptCommentLines(out)

(***************************************************************************)
(* C15: strip_blank_lines.                                                 *)
(***************************************************************************)
NonBlank(l) == Trim(l) # <<>>

\* C15: the lines of the result of strip_blank_lines are the lines of its
\* input that are not blank, in their order and unchanged (so the result
\* holds no blank line), and the result ends with a line feed exactly if
\* the input does.
C15_BlankLinesReference ==
    pc = "strip_blank_lines" =>
      \A input \in {fs[args.input_file]} :
         /\ Lines(content) = SelectSeq(Lines(input), NonBlank)
         /\ EndsWith(content, NL) <=> EndsWith(input, NL)

(***************************************************************************)
(* C16: strip_docstrings.                                                  *)
(***************************************************************************)
\* the offset of the first three quotes q at or after offset j, -1 if none
RECURSIVE FirstTriple(_, _, _)
FirstTriple(text, q, j) ==
    IF j + 3 > Len(text) THEN -1
    ELSE IF HasAt(text, j, <<q, q, q>>) THEN j
    ELSE FirstTriple(text, q, j + 1)

\* the text before a region on its line ends with an f-string prefix
HasFPrefix(before) ==
    \E t \in {TrimEnd(before)} :
       \/ \E f \in {"f", "F"} : EndsWith(t, <<f>>)
       \/ \E f \in {"f", "F"}, r \in {"r", "R"} : EndsWith(t, <<f, r>>)

\* the text before a region on its line is an assignment name(.name)* =,
\* an import statement, a decorator line or an f-string prefix
KeepsRegion(before) ==
    \/ IsAssignmentAt(before, SkipWs(before, 0))
    \/ IsImportPrefixAt(before, SkipWs(before, 0))
    \/ HasAt(before, SkipWs(before, 0), <<"@">>)
    \/ HasFPrefix(before)

\* the text from offset last on without the regions that are not kept; a
\* region runs from three quotes to the next three quotes of the same style
RECURSIVE WithoutDocstrings(_, _, _)
WithoutRegion(text, pos, last, close) ==
    IF close < 0 THEN WithoutDocstrings(text, pos + 1, last)
    ELSE Slice(text, last, pos)
         \o (IF KeepsRegion(Slice(text, LineStart(text, pos), pos))
             THEN Slice(text, pos, close + 3) ELSE <<>>)
         \o WithoutDocstrings(text, close + 3, close + 3)

WithoutDocstrings(text, pos, last) ==
    IF pos >= Len(text) THEN Slice(text, last, Len(text))
    ELSE IF \E q \in {"\"", "'"} : HasAt(text, pos, <<q, q, q>>)
    THEN WithoutRegion(text, pos, last,
                       FirstTriple(text, At(text, pos), pos + 3))
    ELSE WithoutDocstrings(text, pos + 1, last)

\* C16: the result of strip_docstrings is its input without the closed
\* triple-quoted regions whose line does not start, before the region, with
\* an assignment, an import statement, a decorator or an f-string prefix;
\* the regions it keeps and the text outside the regions are unchanged and
\* in order, and nothing of a removed region, its quotes included, is left.
C16_DocstringsReference ==
    pc = "strip_docstrings" =>
       content = WithoutDocstrings(fs[args.input_file], 0, 0)

(***************************************************************************)
(* C17: string literals in the release output.                             *)
(***************************************************************************)
\* a statement from its first quote on: the literal it ends with
LiteralOf(statement) ==
    Slice(statement,
          CHOOSE k \in 0..(Len(statement) - 1) :
             /\ At(statement, k) \in {"\"", "'"}
             /\ \A j \in 0..(k - 1) : At(statement, j) \notin {"\"", "'"},
          Len(statement))

\* the triple-quoted literals of the inputs that are used as a value:
\* assigned (on one line and over several lines) and returned
ValueLiterals ==
    {LiteralOf(PassItems.assigned), LiteralOf(PassItems.text),
     LiteralOf(PassItems.returned)}

\* C17: a triple-quoted string literal that is used as a value in the
\* input of a release run stands in the output with its delimiters and its
\* text unchanged, the # characters, import-like lines and blank lines in
\* it included.
C17_LiteralsUnchanged ==
    pc = "done" /\ args.release =>
       \A lit \in ValueLiterals :
          Contains(fs[args.input_file], lit) =>
             Contains(fs[args.output_file], lit)

(***************************************************************************)
(* C18: # inside string literals.                                          *)
(***************************************************************************)
\* the offsets of the characters inside string literals (between the
\* delimiters), with the modes of CommentStartsFrom
RECURSIVE InStringFrom(_, _, _, _)
InStringFrom(text, i, mode, q) ==
    IF i >= Len(text) THEN {}
    ELSE IF mode = "code"
    THEN IF At(text, i) = "#"
         THEN InStringFrom(text, i + 1, "comment", q)
         ELSE IF At(text, i) \in {"\"", "'"}
         THEN IF HasAt(text, i, <<At(text, i), At(text, i), At(text, i)>>)
              THEN InStringFrom(text, i + 3, "triple", At(text, i))
              ELSE InStringFrom(text, i + 1, "string", At(text, i))
         ELSE InStringFrom(text, i + 1, "code", q)
    ELSE IF mode = "comment"
    THEN InStringFrom(text, i + 1,
                      IF At(text, i) = "\n" THEN "code" ELSE "comment", q)
    ELSE IF At(text, i) = "\\"
    THEN {i, i + 1} \cup InStringFrom(text, i + 2, mode, q)
    ELSE IF mode = "string"
    THEN IF At(text, i) \in {q, "\n"}
         THEN InStringFrom(text, i + 1, "code", q)
         ELSE {i} \cup InStringFrom(text, i + 1, "string", q)
    ELSE IF HasAt(text, i, <<q, q, q>>)
    THEN InStringFrom(text, i + 3, "code", q)
    ELSE {i} \cup InStringFrom(text, i + 1, "triple", q)

\* the offsets of the # inside string literals
HashesInStrings(text) ==
    {o \in InStringFrom(text, 0, "code", "") : At(text, o) = "#"}

\* the line that holds the offset, up to and with the offset
LineThrough(text, o) == Slice(text, LineStart(text, o), o + 1)

\* C18: for every # inside a string literal of the input (a string in
\* single, double or triple quotes, on its line or open from an earlier
\* line), the result of strip_comments holds the line of the # at least up
\* to and with that #: the line is not cut at it or before it.
C18_HashInStringKept ==
    pc = "strip_comments" =>
       \A input \in {fs[args.input_file]}, ol \in {Lines(content)} :
          \A o \in HashesInStrings(input) :
             \E i \in 1..Len(ol) : HasAt(ol[i], 0, LineThrough(input, o))

(***************************************************************************)
(* C19: whole-line and trailing comments.                                  *)
(***************************************************************************)
\* what a line of the text is to become: a shebang or metadata line and a
\* line without a comment stay as they are, a line with a comment becomes
\* the text before the # without its trailing whitespace (empty for a line
\* that holds only the comment)
WithoutComment(text, k, starts) ==
    IF k \in KeptCommentLines(text) \/ starts = {} THEN Lines(text)[k]
    ELSE \* a comment runs to the end of its line: starts holds one offset
         TrimEnd(Slice(Lines(text)[k], 0,
                       (CHOOSE o \in starts : TRUE)
                          - LineStart(text, CHOOSE o \in starts : TRUE)))

WithoutComments(text) ==
    [k \in 1..Len(Lines(text)) |->
        WithoutComment(text, k,
                       {o \in CommentStarts(text) : LineOf(text, o) = k})]

\* C19: the lines of the result of strip_comments that are not blank are,
\* in order, the lines of the input each without its comment: a line with
\* code and a trailing comment outside strings gives exactly the text before
\* the # with trailing whitespace removed, a line that holds only a comment
\* gives nothing, a line without a comment is there verbatim.
C19_CommentsReference ==
    pc = "strip_comments" =>
       SelectSeq(Lines(content), NonBlank)
          = SelectSeq(WithoutComments(fs[args.input_file]), NonBlank)

(***************************************************************************)
(* C20: the shebang and the metadata blocks in strip_comments.             *)
(***************************************************************************)
\* line k holds a comment and nothing before it
CommentOnly(text, k) ==
    \E o \in CommentStarts(text) :
       /\ LineOf(text, o) = k
       /\ Trim(Slice(text, LineStart(text, o), o)) = <<>>

\* what is left of a line: the line without trailing whitespace, or cut
\* somewhere and then without trailing whitespace
LeftOf(l) == {l} \cup {TrimEnd(Slice(l, 0, n)) : n \in 0..Len(l)}

\* the lines out from j on are what the lines ls from k on give: a kept
\* line gives itself, a comment line that is not kept gives nothing, any
\* other line gives nothing or what is left of it; after the last line
\* nothing is left but, at most, one empty line
RECURSIVE KeepsLines(_, _, _, _, _)
KeepsLines(text, ls, k, out, j) ==
    IF k > Len(ls)
    THEN j > Len(out) \/ (j = Len(out) /\ out[j] = <<>>)
    ELSE IF k \in KeptCommentLines(text)
    THEN /\ j <= Len(out)
         /\ out[j] = ls[k]
         /\ KeepsLines(text, ls, k + 1, out, j + 1)
    ELSE IF CommentOnly(text, k)
    THEN KeepsLines(text, ls, k + 1, out, j)
    ELSE \/ KeepsLines(text, ls, k + 1, out, j)
         \/ /\ j <= Len(out)
            /\ out[j] \in LeftOf(ls[k])
            /\ out[j] # <<>>
            /\ KeepsLines(text, ls, k + 1, out, j + 1)

AfterHeader(ls) ==
    SubSeq(ls, ShebangLen(ls) + BlockLen(ls, ShebangLen(ls)) + 1, Len(ls))

\* the line matches the Python import pattern and not the JavaScript one
MatchesImport(l) ==
    /\ IsFromLine(l, SkipWs(l, 0)) \/ IsPlainLine(l, SkipWs(l, 0))
    /\ ~IsJsLine(l, SkipWs(l, 0))

NotImport(l) == ~MatchesImport(l)

ImportSet(ls) == {TrimStart(ls[k]) : k \in {j \in 1..Len(ls) : MatchesImport(ls[j])}}

\* the lines out are the imports of rest, each once and in ascending
\* order, and then the other lines of rest in their order (or one empty
\* line if there is none)
SectionsOf(rest, out, n) ==
    /\ n <= Len(out)
    /\ {out[i] : i \in 1..n} = ImportSet(rest)
    /\ \A i \in 1..(n - 1) : Less(out[i], out[i + 1])
    /\ \/ SubSeq(out, n + 1, Len(out)) = SelectSeq(rest, NotImport)
       \/ /\ SelectSeq(rest, NotImport) = <<>>
          /\ SubSeq(out, n + 1, Len(out)) = << <<>> >>

\* the lines out are empty or lines of the header of ls
HeaderOnly(ls, rest, out) ==
    \A i \in 1..Len(out) :
       out[i] = <<>> \/ \E h \in 1..(Len(ls) - Len(rest)) : out[i] = ls[h]

\* C21: the result of post_process_imports holds, after the text of the
\* header, an import section that is exactly the set of the left-trimmed
\* lines that match the Python import pattern and not the JavaScript
\* pattern, each once and in ascending order, and after it every other
\* line (the JavaScript imports too) in its original order, none lost.
C21_ImportSection ==
    pc = "post_process_imports" =>
       \A ls \in {Lines(fs[args.input_file])} :
          \E c \in 0..Len(content) :
             /\ HeaderOnly(ls, AfterHeader(ls), Lines(Slice(content, 0, c)))
             /\ SectionsOf(AfterHeader(ls),
                           Lines(Slice(content, c, Len(content))),
                           Cardinality(ImportSet(AfterHeader(ls))))

\* two imports out of order, one of them twice (once indented), around a
\* JavaScript import: the result is the two imports sorted and then the
\* JavaScript import
C21_Witness ==
    /\ pc = "post_process_imports"
    /\ Lines(fs[args.input_file])
          = <<ImportItems.indented, ImportItems.js, ImportItems.from>>
    /\ Lines(content)
          = <<ImportItems.from, ImportItems.plain, ImportItems.js>>

(***************************************************************************)
(* C22: the header of post_process_imports.                                *)
(***************************************************************************)
\* the number of the line that ends the metadata block that starts at line
\* k: the first line after k that is # /// or #///, 0 if there is none
FirstEndMarker(ls, k) ==
    IF \E j \in (k + 1)..Len(ls) : IsPep723End(TrimStart(ls[j]))
    THEN CHOOSE j \in (k + 1)..Len(ls) :
            /\ IsPep723End(TrimStart(ls[j]))
            /\ \A h \in (k + 1)..(j - 1) : ~IsPep723End(TrimStart(ls[h]))
    ELSE 0

\* the number of lines of the header: a shebang first line and a
\* well-formed metadata block that follows it
HeaderLines(ls, sh) ==
    IF /\ sh < Len(ls)
       /\ IsPep723Start(TrimStart(ls[sh + 1]))
       /\ FirstEndMarker(ls, sh + 1) > 0
    THEN FirstEndMarker(ls, sh + 1)
    ELSE sh

\* C22: the result of post_process_imports starts with the lines of the
\* header (a shebang first line, then a metadata block from its start
\* marker through its end marker # /// or #///), verbatim, with nothing
\* but empty lines between them, ahead of every import and every other
\* line; the last line of the header is a line of its own in the result;
\* the result ends with a line feed.
C22_HeaderFirst ==
    pc = "post_process_imports" =>
       \A ls \in {Lines(fs[args.input_file])}, out \in {Lines(content)} :
          /\ \E a \in 0..Len(out) :
                SelectSeq(SubSeq(out, 1, a), NonBlank)
                   = SubSeq(ls, 1, HeaderLines(ls, ShebangLen(ls)))
          /\ EndsWith(content, NL)

(***************************************************************************)
(* C23: handle_editable_installs.                                          *)
(***************************************************************************)
\* the directory is the file:// target of a direct_url.json that declares
\* dir_info.editable true, in a .dist-info directory of a site-packages
\* directory of the list before the call
EditableTarget(package_path) ==
    \E root \in Range(args.python_sys_path) :
       /\ IsSitePackages(root)
       /\ \E entry \in ReadDir(fs, root) :
             /\ EndsWith(entry[Len(entry)], DistInfoSuffix)
             /\ (entry \o <<DirectUrlName>>) \in DOMAIN fs
             /\ \E json \in {fs[entry \o <<DirectUrlName>>]} :
                   /\ json.valid
                   /\ json.editable = "true"
                   /\ json.url # NoValue
                   /\ HasAt(json.url, 0, FileScheme)
                   /\ package_path
                        = PathFrom(TrimStartMatches(json.url, FileScheme))

\* a direct_url.json that is not valid JSON, in a .dist-info directory of a
\* site-packages directory of the list
InvalidDocument ==
    \E root \in Range(args.python_sys_path) :
       /\ IsSitePackages(root)
       /\ \E entry \in ReadDir(fs, root) :
             /\ EndsWith(entry[Len(entry)], DistInfoSuffix)
             /\ (entry \o <<DirectUrlName>>) \in DOMAIN fs
             /\ ~fs[entry \o <<DirectUrlName>>].valid

\* C23: handle_editable_installs only appends to the list: the entries
\* from before the call stay at their places, every step leaves the list
\* or extends it at its end, every appended path is the file:// target of
\* an editable direct_url.json of a .dist-info directory of a site-packages
\* directory and differs from every entry before it, and with a
\* direct_url.json that is not valid JSON the call does not return Ok.
C23_OnlyAppends ==
    /\ [](/\ IsPrefix(args.python_sys_path, env.python_sys_path)
          /\ \A j \in (Len(args.python_sys_path) + 1)
                         ..Len(env.python_sys_path) :
                /\ EditableTarget(env.python_sys_path[j])
                /\ \A i \in 1..(j - 1) :
                      env.python_sys_path[i] # env.python_sys_path[j]
          /\ pc = "installs_handled" => ~InvalidDocument)
    /\ [][IsPrefix(env.python_sys_path, env.python_sys_path')]_vars

\* the site-packages directory is in the list twice and p is in the list:
\* of the two editable installs, at p/ and at o, only o was appended, once
C23_Witness ==
    /\ pc = "installs_handled"
    /\ args.python_sys_path = <<PPackage, PSite, PSite>>
    /\ \A k \in 1..2 : (DistInfo(k) \o <<DirectUrlName>>) \in DOMAIN fs
    /\ fs[DistInfo(1) \o <<DirectUrlName>>] = DirectUrls.editable_p_slash
    /\ fs[DistInfo(2) \o <<DirectUrlName>>] = DirectUrls.editable_o
    /\ env.python_sys_path
          = <<PPackage, PSite, PSite, << <<"o">> >> >>
    /\ Len(reads) = 4

(***************************************************************************)
(* C24: the processed set.                                                 *)
(***************************************************************************)
\* the step is a call of inline_imports on path from within inline_imports:
\* its first statement reads the file, and a frame is opened unless the
\* read fails
CallsOn(path) ==
    /\ pc = "inlining"
    /\ reads' = Append(reads, path)
    /\ \/ /\ Len(stack') = Len(stack) + 1
          /\ stack'[Len(stack')] = NewFrame(path)
       \/ pc' = "error" /\ stack' = stack

\* C24: the processed set is empty when run starts and only grows: no step
\* removes a path, a step adds at most one path, it adds a path exactly
\* when it calls inline_imports on that path from within inline_imports,
\* and then the path was absent before; the set keeps the path when the
\* call has returned or failed (the file of every nested call is in it).
C24_ProcessedGrows ==
    /\ [](/\ pc = "start" => processed = {}
          /\ \A k \in 2..Len(stack) : stack[k].file \in processed)
    /\ [][/\ processed \subseteq processed'
          /\ processed' # processed =>
                \E path \in processed' \ processed :
                   processed' = processed \cup {path} /\ CallsOn(path)
          /\ (pc = "inlining" /\ reads' # reads) =>
                /\ reads'[Len(reads')] \notin processed
                /\ reads'[Len(reads')] \in processed']_vars

\* a run that has inlined a.py, which imports itself and the entry file:
\* after the calls have returned both paths are in the set, and the second
\* imports of them were not inlined again
C24_Witness ==
    /\ Final
    /\ Cardinality(processed) >= 2
    /\ PMain \in processed
    /\ \E k \in EventsOf("already") : log[k].path \in processed
    /\ \A k \in EventsOf("inline") : log[k].path \in processed

(***************************************************************************)
(* C25: the cursor last_end.                                               *)
(***************************************************************************)
\* C25: in every call of inline_imports, last_end is at most the length of
\* the working content, the next import match starts at or after last_end
\* (the end of the span of the match before it, a span extended to a
\* closing parenthesis too), and no slice of the working content fails.
C25_CursorAdvances ==
    /\ pc # "panic"
    /\ \A k \in 1..Len(stack) :
          stack[k].last_end <= Len(stack[k].content_to_process)
    /\ pc = "inlining" =>
          \A m \in {Match} : m.ok => m.start >= Top.last_end

(***************************************************************************)
(* C26: the ranges of find_type_checking_blocks.                           *)
(***************************************************************************)
\* C26: the ranges that find_type_checking_blocks returns for a content
\* are in ascending order and do not overlap (each starts at or after the
\* end of the one before it, so the position of the skip loop, which is set
\* to the end of each range in turn, never moves backwards), and each has
\* 0 <= start <= end <= length of the content.
C26_RangesWellFormed ==
    pc \in {"find_type_checking_blocks", "content_to_process"} =>
       /\ \A k \in 1..Len(log) :
             /\ 0 <= log[k][1]
             /\ log[k][1] <= log[k][2]
             /\ log[k][2] <= Len(fs[args.input_file])
       /\ \A k \in 1..(Len(log) - 1) :
             /\ log[k][2] <= log[k + 1][1]
             /\ log[k][2] <= log[k + 1][2]

(***************************************************************************)
(* C27: a module reference that starts with dots is resolved only against  *)
(* the directory of the file that holds the import statement: the leading  *)
(* dots are dropped, the other dots separate path components, the result   *)
(* is joined to that directory and taken as a package (its __init__.py)    *)
(* or else as a module file; it is reported missing exactly when neither   *)
(* exists there, whatever the search roots and the entry file's directory  *)
(* hold.                                                                   *)
(***************************************************************************)
IsRelative(submodule) == HasAt(submodule, 0, <<".">>)

RelativeBase(e) ==
    Parent(e.file) \o DottedComponents(TrimDots(e.submodule))

RelativeTarget(files, e) ==
    IF Exists(files, RelativeBase(e) \o <<"__init__.py">>)
    THEN RelativeBase(e) \o <<"__init__.py">>
    ELSE WithExtensionPy(RelativeBase(e))

C27_RelativeToCurrentFile ==
    \A k \in 1..Len(log) : IsRelative(log[k].submodule) =>
        IF log[k].ev = "notfound"
        THEN ~Exists(fs, RelativeTarget(fs, log[k]))
        ELSE /\ log[k].path = RelativeTarget(fs, log[k])
             /\ Exists(fs, log[k].path)

\* a package under a search root was inlined; one relative import of it
\* was found beside it although the entry file's directory holds a file
\* of that name too, and another one was reported missing although the
\* entry file's directory and a search root hold a file of that name
C27_Witness ==
    /\ pc = "done"
    /\ \E k \in 1..Len(log) :
          /\ IsRelative(log[k].submodule)
          /\ log[k].ev = "inline"
          /\ Parent(log[k].file) # Parent(PMain)
          /\ SubSeq(log[k].path, 1, Len(Parent(log[k].file)))
                = Parent(log[k].file)
          /\ Exists(fs, WithExtensionPy(
                 Parent(PMain) \o DottedComponents(TrimDots(log[k].submodule))))
    /\ \E k \in 1..Len(log) :
          /\ IsRelative(log[k].submodule)
          /\ log[k].ev = "notfound"
          /\ Parent(log[k].file) # Parent(PMain)
          /\ \E j \in 1..Len(env.python_sys_path) :
                Exists(fs, WithExtensionPy(env.python_sys_path[j]
                    \o DottedComponents(TrimDots(log[k].submodule))))

(***************************************************************************)
(* C28: the body of the entry file is in the output exactly once: an       *)
(* import that resolves to the path of the entry file is handled as        *)
(* already inlined, and the output of a finished run holds a line of the   *)
(* entry file that is no import as many times as the entry file does.      *)
(***************************************************************************)
EntryStatement == <<"D", "=", "1", "\n">>

Occurrences(text, pattern) ==
    Cardinality({i \in 0..Len(text) :
                    /\ HasAt(text, i, pattern)
                    /\ i = 0 \/ At(text, i - 1) \in {"\n", " ", "\t"}})

C28_EntryBodyOnce ==
    /\ \A k \in 1..Len(log) :
          log[k].path = args.input_file => log[k].ev = "already"
    /\ pc = "done" =>
          Occurrences(content, EntryStatement)
              = Occurrences(fs[args.input_file], EntryStatement)

(***************************************************************************)
(* C29: a file inlined at an import with non-empty indentation keeps the   *)
(* value of its multi-line string literal: the text between the triple     *)
(* quotes is in the output what it is in the file, no line of it is        *)
(* prefixed with the indentation of the import.                            *)
(***************************************************************************)
StringDelimiter == <<"'", "'", "'">>

DelimiterFrom(text, from) ==
    LET S == {i \in from..Len(text) : HasAt(text, i, StringDelimiter)}
    IN  IF S = {} THEN -1 ELSE CHOOSE i \in S : \A j \in S : i <= j

HasStringLiteral(text) ==
    /\ DelimiterFrom(text, 0) >= 0
    /\ DelimiterFrom(text, DelimiterFrom(text, 0) + 3) >= 0

\* the value of the first triple-quoted literal of a text
StringValue(text) ==
    Slice(text, DelimiterFrom(text, 0) + 3,
          DelimiterFrom(text, DelimiterFrom(text, 0) + 3))

C29_StringsKept ==
    (pc = "done" /\ ~args.release) =>
        \A k \in 1..Len(log) :
            ( /\ log[k].ev = "inline"
              /\ log[k].indent # <<>>
              /\ HasStringLiteral(fs[log[k].path]) ) =>
                /\ HasStringLiteral(content)
                /\ StringValue(content) = StringValue(fs[log[k].path])

(***************************************************************************)
(* C30: in the in-memory file system read_to_string of a path returns the  *)
(* contents of the last successful write to that path, and a successful    *)
(* write to a path leaves the set of directories and the contents of       *)
(* every other file as they were.                                          *)
(***************************************************************************)
Directories(root) == {q \in DOMAIN root : root[q].kind = "Directory"}

Files(root) == {q \in DOMAIN root : root[q].kind = "File"}

ReadsLastWrite ==
    (pc = "read_to_string" /\ log[args.path] # NoWrite) =>
        env.ok /\ content = log[args.path]

WriteKeepsOthers ==
    (pc' = "write" /\ env'.ok) =>
        /\ Directories(fs') = Directories(fs)
        /\ \A q \in Files(fs) \ {resolve_path(args'.path)} :
              q \in Files(fs') /\ fs'[q] = fs[q]

C30_ReadsLastWrite == []ReadsLastWrite /\ [][WriteKeepsOthers]_vars
====
